---- MODULE Spec2Model ----
(***************************************************************************)
(* A model of the source-aware logger (src/core/Logger.ts) and of the      *)
(* logging slice of the application store (src/store/loggingReducer.ts).   *)
(*                                                                         *)
(* Strings whose characters matter (messages, source labels, the           *)
(* comma-separated environment list) are sequences of one-character        *)
(* strings.  An absent (undefined) source is the empty sequence: the       *)
(* extractor never yields an empty label, and the code tests sources for   *)
(* truthiness only.  Other optional values are sequences of length 0 or 1. *)
(***************************************************************************)
EXTENDS Integers, Sequences, FiniteSets, TLC

(* ------------------------------------------------------------------ *)
(* Bounds of the model                                                 *)
(* ------------------------------------------------------------------ *)
\* log calls explored by Spec, after and before any reconfiguration
MaxCalls == 1
\* log calls explored by SpecSeq
SeqCalls == 2
\* log calls beyond the history capacity explored by SpecHist
ExtraCalls == 2
\* log calls explored by SpecSnap and by SpecEnv
SnapCalls == 2

(* ------------------------------------------------------------------ *)
(* Values                                                              *)
(* ------------------------------------------------------------------ *)
\* JavaScript undefined / null, for values that are plain strings
None == "undefined"
\* an absent source label
NoSource == <<>>

Loggers == {1, 2}
Stores == {"s1", "s2", "s3"}

\* types.ts: LogLevel; Logger.ts: the `levels` array of shouldLog
levels == <<"trace", "debug", "info", "warn", "error", "fatal">>
LogLevel == {levels[i] : i \in 1..Len(levels)}

\* UTF-16 code units of the characters the model uses
CharCode == [c \in {" ", ",", "A", "B", "[", "]", "a", "b", "x"} |->
               CASE c = " " -> 32 [] c = "," -> 44 [] c = "A" -> 65
                 [] c = "B" -> 66 [] c = "[" -> 91 [] c = "]" -> 93
                 [] c = "a" -> 97 [] c = "b" -> 98 [] c = "x" -> 120]

\* String.prototype.toLowerCase on one character
LowerChar(c) == CASE c = "A" -> "a" [] c = "B" -> "b" [] OTHER -> c

\* String.prototype.toLowerCase
toLowerCase(s) == [i \in 1..Len(s) |-> LowerChar(s[i])]

\* String.prototype.trim (the only whitespace of the model is the space)
RECURSIVE trimStart(_)
trimStart(s) == IF s # <<>> /\ Head(s) = " " THEN trimStart(Tail(s)) ELSE s
RECURSIVE trimEnd(_)
trimEnd(s) ==
    IF s # <<>> /\ s[Len(s)] = " " THEN trimEnd(SubSeq(s, 1, Len(s) - 1)) ELSE s
trim(s) == trimEnd(trimStart(s))

\* String.prototype.split(','): the pieces between commas, empty pieces kept
RECURSIVE splitFrom(_, _, _)
splitFrom(s, i, cur) ==
    IF i > Len(s) THEN <<cur>>
    ELSE IF s[i] = "," THEN <<cur>> \o splitFrom(s, i + 1, <<>>)
    ELSE splitFrom(s, i + 1, Append(cur, s[i]))
split(s) == splitFrom(s, 1, <<>>)

\* Array.prototype.includes
includes(arr, x) == \E i \in 1..Len(arr) : arr[i] = x

\* Array.prototype.indexOf, 0-based, -1 when absent
indexOf(arr, x) ==
    IF includes(arr, x)
    THEN (CHOOSE i \in 1..Len(arr) : arr[i] = x /\ \A j \in 1..(i - 1) : arr[j] # x) - 1
    ELSE -1

\* the default comparison of Array.prototype.sort: UTF-16 code unit order
RECURSIVE StrLess(_, _)
StrLess(a, b) ==
    IF a = <<>> THEN b # <<>>
    ELSE IF b = <<>> THEN FALSE
    ELSE IF CharCode[Head(a)] # CharCode[Head(b)] THEN CharCode[Head(a)] < CharCode[Head(b)]
    ELSE StrLess(Tail(a), Tail(b))

RECURSIVE insertSorted(_, _)
insertSorted(sorted, x) ==
    IF sorted = <<>> THEN <<x>>
    ELSE IF StrLess(x, Head(sorted)) THEN <<x>> \o sorted
    ELSE <<Head(sorted)>> \o insertSorted(Tail(sorted), x)

\* Array.prototype.sort() without a comparator (a stable sort)
RECURSIVE sort(_)
sort(arr) == IF arr = <<>> THEN <<>> ELSE insertSorted(sort(SubSeq(arr, 1, Len(arr) - 1)), arr[Len(arr)])

(* ------------------------------------------------------------------ *)
(* Inputs                                                              *)
(* ------------------------------------------------------------------ *)
SrcA == <<"A">>
SrcLowerA == <<"a">>
SrcB == <<"B">>
\* the labels a write to the store names
Sources == {SrcA, SrcB}

\* "[A] x", "[a] x", "[B] x", "x" and "[]x"
MsgA == <<"[", "A", "]", " ", "x">>
MsgLowerA == <<"[", "a", "]", " ", "x">>
MsgB == <<"[", "B", "]", " ", "x">>
MsgPlain == <<"x">>
MsgEmptyBrackets == <<"[", "]", "x">>
Messages == {MsgA, MsgLowerA, MsgPlain, MsgEmptyBrackets}

\* A line of a stack trace, reduced to what detectCallingSource reads of it:
\* whether it names Logger.ts, webpack or node_modules, the file name it
\* carries (extension removed) and the function name after "at".
Frame(internal, file, func) == [internal |-> internal, file |-> file, func |-> func]
InternalFrame == Frame(TRUE, SrcB, <<"x">>)
\* a stack with nothing beyond the logger's own frames
StackBare == <<InternalFrame, InternalFrame, InternalFrame, InternalFrame>>
\* a stack whose first outer frame carries only "at Object", then a file B
StackFile ==
    <<InternalFrame, InternalFrame, InternalFrame, InternalFrame,
      Frame(FALSE, NoSource, <<"Object">>), Frame(FALSE, SrcB, <<"x">>)>>
Stacks == {StackBare, StackFile}

\* the extra positional arguments of a call
ArgLists == {<<>>, <<"obj">>}

\* The calls of getState, counted within one log call, that throw.  A log call
\* makes no further call of getState after one has thrown.
FailSets == {{}, {1}, {2}, {3}, {1, 2, 3}}

\* import.meta.env
EnvDefault ==
    [VITE_LOG_LEVEL |-> None, VITE_DISABLED_LOG_SOURCES |-> <<>>,
     VITE_DISABLE_ALL_LOGGING |-> None, VITE_ENABLE_EARLY_LOGGING |-> None, PROD |-> FALSE]
\* early logging allowed, with the list "A, b"
EnvEarly ==
    [EnvDefault EXCEPT !.VITE_ENABLE_EARLY_LOGGING = "true",
                       !.VITE_DISABLED_LOG_SOURCES = << <<"A", ",", " ", "b">> >>,
                       !.PROD = TRUE]
\* everything switched off by the environment
EnvOff ==
    [EnvDefault EXCEPT !.VITE_DISABLE_ALL_LOGGING = "true",
                       !.VITE_ENABLE_EARLY_LOGGING = "true",
                       !.VITE_LOG_LEVEL = "WARN"]
Envs == {EnvDefault, EnvEarly, EnvOff}
\* early logging allowed, with the minimum level error
EnvLevel ==
    [EnvDefault EXCEPT !.VITE_ENABLE_EARLY_LOGGING = "true", !.VITE_LOG_LEVEL = "error"]

\* early logging allowed, with a minimum level that is no level: 'Verbose'
EnvBad ==
    [EnvDefault EXCEPT !.VITE_ENABLE_EARLY_LOGGING = "true", !.VITE_LOG_LEVEL = "Verbose"]

\* The options object passed to a constructor.  A key that is not passed is
\* <<>>, a key that is passed is <<value>>.
OptsNone ==
    [minLevel |-> <<>>, disabledSources |-> <<>>, includeTimestamp |-> <<>>,
     includeSource |-> <<>>, formatter |-> <<>>]
\* { minLevel: 'warn', disabledSources: ['A'], includeSource: false,
\*   formatter: () => { throw ... } }
OptsSecond ==
    [OptsNone EXCEPT !.minLevel = <<"warn">>, !.disabledSources = << <<SrcA>> >>,
                     !.includeSource = <<FALSE>>, !.formatter = <<"throws">>]

\* { minLevel: 'verbose' }: a string that is no level
OptsBad == [OptsNone EXCEPT !.minLevel = <<"verbose">>]

(* ------------------------------------------------------------------ *)
(* State                                                               *)
(* ------------------------------------------------------------------ *)
VARIABLES
    env,                     \* import.meta.env
    storeReference,          \* Logger.ts: storeReference (None or a store)
    isStoreConnected,        \* Logger.ts: isStoreConnected
    discoveredSourcesCache,  \* Logger.ts: the Set, in insertion order
    pending,                 \* deferred import().then(...) tasks, by source
    storeState,              \* per store: its state and whether it has dispatch
    options,                 \* per logger: this.options
    logEntries,              \* per logger: this.logEntries
    console,                 \* the writes made to the console, in order
    now,                     \* the clock read by new Date(); one tick per log call
    callLog,                 \* what each log call so far was and did, in order
    last,                    \* the most recent operation and its outcome
    heldHistory,             \* the array a caller got from getHistory and still holds
    heldSources              \* the array a caller got from getDiscoveredSources

vars == <<env, storeReference, isStoreConnected, discoveredSourcesCache, pending,
          storeState, options, logEntries, console, now, callLog, last,
          heldHistory, heldSources>>

(* ------------------------------------------------------------------ *)
(* The store: loggingReducer.ts                                        *)
(* ------------------------------------------------------------------ *)
\* an initial state with logging enabled
initialStateEnabled ==
    [disabledSources |-> <<>>, isGloballyDisabled |-> FALSE, discoveredSources |-> <<>>,
     logLevel |-> None]

\* loggingReducer.ts: initialState (logLevel is the field setLogLevel adds)
initialState ==
    [disabledSources |-> <<>>, isGloballyDisabled |-> TRUE, discoveredSources |-> <<>>,
     logLevel |-> None]

\* Array.prototype.splice(index, 1), index 0-based
splice1(arr, index) == SubSeq(arr, 1, index) \o SubSeq(arr, index + 2, Len(arr))

\* toggleSourceLogging removing with splice(index): everything from index on
toggleSourceLoggingSplicingTail(state, source) ==
    LET index == indexOf(state.disabledSources, source) IN
    IF index = -1
    THEN [state EXCEPT !.disabledSources = Append(@, source)]
    ELSE [state EXCEPT !.disabledSources = SubSeq(@, 1, index)]

toggleSourceLogging(state, source) ==
    LET index == indexOf(state.disabledSources, source) IN
    IF index = -1
    THEN [state EXCEPT !.disabledSources = Append(@, source)]
    ELSE [state EXCEPT !.disabledSources = splice1(@, index)]

setSourceLogging(state, source, disabled) ==
    LET index == indexOf(state.disabledSources, source) IN
    IF disabled /\ index = -1
    THEN [state EXCEPT !.disabledSources = Append(@, source)]
    ELSE IF ~disabled /\ index # -1
    THEN [state EXCEPT !.disabledSources = splice1(@, index)]
    ELSE state

toggleGlobalLogging(state) == [state EXCEPT !.isGloballyDisabled = ~@]

setGlobalLogging(state, payload) == [state EXCEPT !.isGloballyDisabled = payload]

\* resetLoggingSettings returning the slice to its initial state
resetLoggingSettingsToInitial(state) == initialState

resetLoggingSettings(state) ==
    [state EXCEPT !.disabledSources = <<>>, !.isGloballyDisabled = FALSE]

\* addDiscoveredSource without the membership test
addDiscoveredSourceUnchecked(state, source) ==
    [state EXCEPT !.discoveredSources = sort(Append(@, source))]

\* addDiscoveredSource without the sort: push alone
addDiscoveredSourceUnsorted(state, source) ==
    IF ~includes(state.discoveredSources, source)
    THEN [state EXCEPT !.discoveredSources = Append(@, source)]
    ELSE state

addDiscoveredSource(state, source) ==
    IF ~includes(state.discoveredSources, source)
    THEN [state EXCEPT !.discoveredSources = sort(Append(@, source))]
    ELSE state

enableAllSources(state) == [state EXCEPT !.disabledSources = <<>>]

\* disableAllSources adding the discovered sources to those already disabled
disableAllSourcesKeepingDisabled(state) ==
    [state EXCEPT !.disabledSources =
        @ \o SelectSeq(state.discoveredSources, LAMBDA source : ~includes(@, source))]

disableAllSources(state) == [state EXCEPT !.disabledSources = state.discoveredSources]

setLogLevel(state, payload) == [state EXCEPT !.logLevel = payload]

\* loggingReducer.ts: the selectors, on what getState() returns
selectDisabledLogSources(state) ==
    IF state.logging = <<>> THEN <<>> ELSE state.logging[1].disabledSources
selectIsGlobalLoggingDisabled(state) ==
    IF state.logging = <<>> THEN TRUE ELSE state.logging[1].isGloballyDisabled
selectDiscoveredSources(state) ==
    IF state.logging = <<>> THEN <<>> ELSE state.logging[1].discoveredSources

\* selectIsSourceLoggingDisabled looking at the list alone
selectIsSourceLoggingDisabledListOnly(state, source) ==
    includes(selectDisabledLogSources(state), source)

\* loggingReducer.ts: selectIsSourceLoggingDisabled(source)
selectIsSourceLoggingDisabled(state, source) ==
    includes(selectDisabledLogSources(state), source) \/ selectIsGlobalLoggingDisabled(state)

\* loggingReducer.ts: selectLoggingStats
selectLoggingStats(state) ==
    LET discoveredSources == selectDiscoveredSources(state)
        disabledSources == selectDisabledLogSources(state)
        isGloballyDisabled == selectIsGlobalLoggingDisabled(state)
    IN [totalSources    |-> Len(discoveredSources),
        enabledSources  |-> IF isGloballyDisabled THEN 0
                            ELSE Len(discoveredSources) - Len(disabledSources),
        disabledSources |-> IF isGloballyDisabled THEN Len(discoveredSources)
                            ELSE Len(disabledSources),
        isGloballyDisabled |-> isGloballyDisabled]

\* A store: getState() is [logging |-> <<>>] when the state has no logging
\* slice and [logging |-> <<slice>>] otherwise; dispatch says whether the
\* store object has a dispatch function.
ReduxStore(slice) == [logging |-> <<slice>>, dispatch |-> TRUE]
\* a store whose state is {} and that has no dispatch
BareStore == [logging |-> <<>>, dispatch |-> FALSE]
\* a store already switched on, with B disabled
PresetStore ==
    ReduxStore([initialState EXCEPT !.isGloballyDisabled = FALSE,
                                    !.disabledSources = <<SrcB>>])

\* loggingReducer.ts: loggingSlice.reducer: the case reducer of the action's
\* type; an action no case reducer handles leaves the state as it is
reducer(state, action) ==
    CASE action.type = "toggleSourceLogging" -> toggleSourceLogging(state, action.payload)
      [] action.type = "setSourceLogging" ->
             setSourceLogging(state, action.payload.source, action.payload.disabled)
      [] action.type = "toggleGlobalLogging" -> toggleGlobalLogging(state)
      [] action.type = "setGlobalLogging" -> setGlobalLogging(state, action.payload)
      [] action.type = "resetLoggingSettings" -> resetLoggingSettings(state)
      [] action.type = "addDiscoveredSource" -> addDiscoveredSource(state, action.payload)
      [] action.type = "enableAllSources" -> enableAllSources(state)
      [] action.type = "disableAllSources" -> disableAllSources(state)
      [] action.type = "setLogLevel" -> setLogLevel(state, action.payload)
      [] OTHER -> state

\* store.dispatch(action): a state without the logging slice stays without it
dispatch(store, action) ==
    IF store.logging = <<>> THEN store
    ELSE [store EXCEPT !.logging = <<reducer(store.logging[1], action)>>]

(* ------------------------------------------------------------------ *)
(* The logger: core/Logger.ts                                          *)
(* ------------------------------------------------------------------ *)
\* Logger.ts: private maxEntries = 1000
maxEntries == 1000

\* toLowerCase on the level strings the environment may hold
lowerLevel(s) == CASE s = "WARN" -> "warn" [] s = "Verbose" -> "verbose" [] OTHER -> s

\* Logger.ts: getLogLevel
getLogLevel(e) ==
    LET level == IF e.VITE_LOG_LEVEL = None THEN None ELSE lowerLevel(e.VITE_LOG_LEVEL) IN
    IF level # None /\ level # "" /\ includes(levels, level) THEN level
    ELSE IF e.PROD THEN "info" ELSE "debug"

\* Logger.ts: the constructor
SourceAwareLogger(opts, e) ==
    [minLevel         |-> IF opts.minLevel = <<>> THEN getLogLevel(e) ELSE opts.minLevel[1],
     disabledSources  |-> IF opts.disabledSources = <<>> THEN <<>> ELSE opts.disabledSources[1],
     includeTimestamp |-> IF opts.includeTimestamp = <<>> THEN TRUE ELSE opts.includeTimestamp[1],
     includeSource    |-> IF opts.includeSource = <<>> THEN TRUE ELSE opts.includeSource[1],
     formatter        |-> IF opts.formatter = <<>> THEN None ELSE opts.formatter[1]]

\* whether isGlobalLoggingDisabled gets as far as calling getState
ReadsStore ==
    /\ env.VITE_DISABLE_ALL_LOGGING # "true"
    /\ isStoreConnected /\ storeReference # None

\* getDisabledLogSources adding the environment's list to the store's
getDisabledLogSourcesMerged(throws) ==
    LET disabled == IF env.VITE_DISABLED_LOG_SOURCES = <<>> THEN <<>>
                    ELSE split(env.VITE_DISABLED_LOG_SOURCES[1])
        fromEnv == [i \in 1..Len(disabled) |-> toLowerCase(trim(disabled[i]))]
    IN IF storeReference = None THEN fromEnv
       ELSE IF throws THEN fromEnv
       ELSE LET state == storeState[storeReference] IN
            IF state.logging = <<>> THEN fromEnv
            ELSE state.logging[1].disabledSources \o fromEnv

\* Logger.ts: getDisabledLogSources; throws: this call of getState throws
getDisabledLogSources(throws) ==
    IF storeReference = None
    THEN LET disabled == IF env.VITE_DISABLED_LOG_SOURCES = <<>> THEN <<>>
                         ELSE split(env.VITE_DISABLED_LOG_SOURCES[1])
         IN [i \in 1..Len(disabled) |-> toLowerCase(trim(disabled[i]))]
    ELSE IF throws THEN <<>>
    ELSE LET state == storeState[storeReference] IN
         IF state.logging = <<>> THEN <<>> ELSE state.logging[1].disabledSources

\* isGlobalLoggingDisabled reading the store's flag with the wrong default and
\* sense: a store that answers is taken to allow logging
isGlobalLoggingDisabledIgnoringFlag(throws) ==
    IF env.VITE_DISABLE_ALL_LOGGING = "true" THEN TRUE
    ELSE IF ~isStoreConnected \/ storeReference = None
    THEN env.VITE_ENABLE_EARLY_LOGGING # "true"
    ELSE throws

\* isGlobalLoggingDisabled without the policy for the time before a store is
\* attached: early logs are allowed unless the environment disables all
isGlobalLoggingDisabledEarlyOpen(throws) ==
    IF env.VITE_DISABLE_ALL_LOGGING = "true" THEN TRUE
    ELSE IF ~isStoreConnected \/ storeReference = None THEN FALSE
    ELSE IF throws THEN TRUE
    ELSE LET state == storeState[storeReference] IN
         IF state.logging = <<>> THEN TRUE ELSE state.logging[1].isGloballyDisabled

\* isGlobalLoggingDisabled answering from a cache filled by the previous log
\* call instead of reading the store again
isGlobalLoggingDisabledStale(throws) ==
    IF env.VITE_DISABLE_ALL_LOGGING = "true" THEN TRUE
    ELSE IF ~isStoreConnected \/ storeReference = None
    THEN env.VITE_ENABLE_EARLY_LOGGING # "true"
    ELSE IF callLog # <<>> THEN callLog[Len(callLog)].exit = "global"
    ELSE IF throws THEN TRUE
    ELSE LET state == storeState[storeReference] IN
         IF state.logging = <<>> THEN TRUE ELSE state.logging[1].isGloballyDisabled

\* isGlobalLoggingDisabled defaulting a missing flag to false: `?? false`
isGlobalLoggingDisabledDefaultOpen(throws) ==
    IF env.VITE_DISABLE_ALL_LOGGING = "true" THEN TRUE
    ELSE IF ~isStoreConnected \/ storeReference = None
    THEN env.VITE_ENABLE_EARLY_LOGGING # "true"
    ELSE IF throws THEN TRUE
    ELSE LET state == storeState[storeReference] IN
         IF state.logging = <<>> THEN FALSE ELSE state.logging[1].isGloballyDisabled

\* Logger.ts: isGlobalLoggingDisabled; throws: this call of getState throws
isGlobalLoggingDisabled(throws) ==
    IF env.VITE_DISABLE_ALL_LOGGING = "true" THEN TRUE
    ELSE IF ~isStoreConnected \/ storeReference = None
    THEN env.VITE_ENABLE_EARLY_LOGGING # "true"
    ELSE IF throws THEN TRUE
    ELSE LET state == storeState[storeReference] IN
         IF state.logging = <<>> THEN TRUE ELSE state.logging[1].isGloballyDisabled

\* isSourceDisabled that stops after the global check
isSourceDisabledGlobalOnly(source, throws2, throws3) == isGlobalLoggingDisabled(throws2)

\* isSourceDisabled that blocks a call without a source: `if (!source) return true`
isSourceDisabledAbsentBlocked(source, throws2, throws3) ==
    IF isGlobalLoggingDisabled(throws2) THEN TRUE
    ELSE IF source = NoSource THEN TRUE
    ELSE includes(getDisabledLogSources(throws3), source)

\* Logger.ts: isSourceDisabled; throws2, throws3: the second and third call
\* of getState made by one log call throw
isSourceDisabled(source, throws2, throws3) ==
    IF isGlobalLoggingDisabled(throws2) THEN TRUE
    ELSE IF source = NoSource THEN FALSE
    ELSE includes(getDisabledLogSources(throws3), source)

\* trackDiscoveredSource on an array cache, without the membership test
trackDiscoveredSourceUnchecked(source) ==
    [cache |-> Append(discoveredSourcesCache, source),
     tasks |-> IF storeReference # None /\ storeState[storeReference].dispatch
               THEN pending \cup {source} ELSE pending]

\* trackDiscoveredSource keeping the cache in sorted order, as the store keeps
\* its list
trackDiscoveredSourceSorted(source) ==
    IF ~includes(discoveredSourcesCache, source)
    THEN [cache |-> insertSorted(discoveredSourcesCache, source),
          tasks |-> IF storeReference # None /\ storeState[storeReference].dispatch
                    THEN pending \cup {source} ELSE pending]
    ELSE [cache |-> discoveredSourcesCache, tasks |-> pending]

\* Logger.ts: trackDiscoveredSource: the cache and the deferred tasks after it
trackDiscoveredSource(source) ==
    IF ~includes(discoveredSourcesCache, source)
    THEN [cache |-> Append(discoveredSourcesCache, source),
          tasks |-> IF storeReference # None /\ storeState[storeReference].dispatch
                    THEN pending \cup {source} ELSE pending]
    ELSE [cache |-> discoveredSourcesCache, tasks |-> pending]

\* the index of the first "]" of msg at or after position i, 0 if none
RECURSIVE firstClose(_, _)
firstClose(msg, i) ==
    IF i > Len(msg) THEN 0 ELSE IF msg[i] = "]" THEN i ELSE firstClose(msg, i + 1)

\* Logger.ts: extractSourceFromMessage: msg.match(/^\[([^\]]+)\]/)
extractSourceFromMessage(msg) ==
    IF msg # <<>> /\ msg[1] = "[" /\ firstClose(msg, 2) >= 3
    THEN SubSeq(msg, 2, firstClose(msg, 2) - 1)
    ELSE NoSource

\* Logger.ts: detectCallingSource: the loop over stackLines from index 3
RECURSIVE detectFrom(_, _)
detectFrom(stackLines, i) ==
    IF i > Len(stackLines) THEN NoSource
    ELSE LET line == stackLines[i] IN
         IF line.internal THEN detectFrom(stackLines, i + 1)
         ELSE IF line.file # NoSource THEN line.file
         ELSE IF line.func # NoSource /\ line.func # <<"Object">> /\ line.func # <<"Module">>
         THEN line.func
         ELSE detectFrom(stackLines, i + 1)
detectCallingSource(stackLines) == detectFrom(stackLines, 4)

\* formatMessage prepending the resolved source to every message
formatMessagePrepending(l, msg, detectedSource) ==
    IF detectedSource # NoSource /\ options[l].includeSource
    THEN <<"[">> \o detectedSource \o <<"]", " ">> \o msg
    ELSE msg

\* Logger.ts: formatMessage
formatMessage(l, msg, detectedSource) ==
    IF extractSourceFromMessage(msg) # NoSource THEN msg
    ELSE IF detectedSource # NoSource /\ options[l].includeSource
    THEN <<"[">> \o detectedSource \o <<"]", " ">> \o msg
    ELSE msg

\* shouldLog with the threshold one level too low
shouldLogOffByOne(l, level) ==
    LET minLevel == options[l].minLevel
        currentLevelIndex == indexOf(levels, IF minLevel = None \/ minLevel = "" THEN "info" ELSE minLevel)
        messageLevelIndex == indexOf(levels, level)
    IN messageLevelIndex >= currentLevelIndex - 1

\* Logger.ts: shouldLog
shouldLog(l, level) ==
    LET minLevel == options[l].minLevel
        currentLevelIndex == indexOf(levels, IF minLevel = None \/ minLevel = "" THEN "info" ELSE minLevel)
        messageLevelIndex == indexOf(levels, level)
    IN messageLevelIndex >= currentLevelIndex

\* the channel chosen as console[level]: one channel per level name
channelOfLevelName(level) == level

\* Logger.ts: the switch of logToConsole
channelOf(level) ==
    CASE level \in {"trace", "debug"} -> "debug"
      [] level = "info" -> "info"
      [] level = "warn" -> "warn"
      [] level \in {"error", "fatal"} -> "error"

\* Logger.ts: logToConsole: whether it throws and the write it makes, if any.
\* The ISO timestamp of the call at time t is the token ToString(t).
logToConsole(l, level, message, args, hasConsole, t) ==
    IF ~hasConsole THEN [threw |-> FALSE, write |-> <<>>]
    ELSE IF options[l].formatter = "throws" THEN [threw |-> TRUE, write |-> <<>>]
    ELSE LET formattedMessage ==
                 IF options[l].formatter # None THEN <<"CUSTOM", level>> \o message
                 ELSE IF options[l].includeTimestamp
                 THEN <<"[", ToString(t), "]", " ">> \o message
                 ELSE message
         IN [threw |-> FALSE,
             write |-> <<[channel |-> channelOf(level), text |-> formattedMessage, args |-> args]>>]

\* Array.prototype.slice(-n)
sliceLast(arr, n) == IF Len(arr) <= n THEN arr ELSE SubSeq(arr, Len(arr) - n + 1, Len(arr))

\* addToHistory trimming from the wrong end: slice(0, maxEntries)
addToHistoryKeepingOldest(entries, level, message, source, args, t) ==
    LET entry == [level |-> level, message |-> message, source |-> source,
                  timestamp |-> t, args |-> args]
        pushed == Append(entries, entry)
    IN IF Len(pushed) > maxEntries THEN SubSeq(pushed, 1, maxEntries) ELSE pushed

\* addToHistory putting the new entry first: unshift in the place of push
addToHistoryNewestFirst(entries, level, message, source, args, t) ==
    LET entry == [level |-> level, message |-> message, source |-> source,
                  timestamp |-> t, args |-> args]
        pushed == <<entry>> \o entries
    IN IF Len(pushed) > maxEntries THEN sliceLast(pushed, maxEntries) ELSE pushed

\* addToHistory recording the entry without the extra arguments
addToHistoryWithoutArgs(entries, level, message, source, args, t) ==
    LET entry == [level |-> level, message |-> message, source |-> source,
                  timestamp |-> t, args |-> <<>>]
        pushed == Append(entries, entry)
    IN IF Len(pushed) > maxEntries THEN sliceLast(pushed, maxEntries) ELSE pushed

\* Logger.ts: addToHistory
addToHistory(entries, level, message, source, args, t) ==
    LET entry == [level |-> level, message |-> message, source |-> source,
                  timestamp |-> t, args |-> args]
        pushed == Append(entries, entry)
    IN IF Len(pushed) > maxEntries THEN sliceLast(pushed, maxEntries) ELSE pushed

\* Logger.ts: getDiscoveredSources: Array.from of the Set, in insertion order
getDiscoveredSources == discoveredSourcesCache

\* Logger.ts: getHistory: a copy of the entries
getHistory(l) == [i \in 1..Len(logEntries[l]) |-> logEntries[l][i]]

\* log registering a source only once its entry is approved
logRegisteringOnApproval(l, level, msg, stackLines, args, fails, hasConsole) ==
    LET t == now + 1
        early == isGlobalLoggingDisabled(1 \in fails) \/ ~shouldLog(l, level)
        source == extractSourceFromMessage(msg)
        detectedSource == IF source # NoSource THEN source ELSE detectCallingSource(stackLines)
        tracked == IF detectedSource # NoSource THEN trackDiscoveredSource(detectedSource)
                   ELSE [cache |-> discoveredSourcesCache, tasks |-> pending]
        blocked == isSourceDisabled(detectedSource, 2 \in fails, 3 \in fails)
        formattedMsg == formatMessage(l, msg, detectedSource)
        sink == logToConsole(l, level, formattedMsg, args, hasConsole, t)
    IN IF early
       THEN [cache |-> discoveredSourcesCache, tasks |-> pending, entries |-> logEntries[l],
             write |-> <<>>, threw |-> FALSE, label |-> detectedSource, failedRead |-> 0,
             exit |-> IF isGlobalLoggingDisabled(1 \in fails) THEN "global" ELSE "level"]
       ELSE IF blocked
       THEN [cache |-> discoveredSourcesCache, tasks |-> pending, entries |-> logEntries[l],
             write |-> <<>>, threw |-> FALSE, label |-> detectedSource, failedRead |-> 0,
             exit |-> IF isGlobalLoggingDisabled(2 \in fails) THEN "global" ELSE "source"]
       ELSE [cache |-> tracked.cache, tasks |-> tracked.tasks,
             entries |-> addToHistory(logEntries[l], level, formattedMsg, detectedSource, args, t),
             write |-> sink.write, threw |-> sink.threw, label |-> detectedSource,
             failedRead |-> 0, exit |-> "sink"]

\* Logger.ts: log, as a function of the state before the call.  fails is the
\* set of calls of getState (counted within this log call) that throw.
\* failedRead is the first call of getState that threw, 0 if none did; exit is
\* the place where the call left log: the first return ("global" or "level"),
\* the isSourceDisabled test ("global" or "source") or the sink.
log(l, level, msg, stackLines, args, fails, hasConsole) ==
    LET t == now + 1
        early == isGlobalLoggingDisabled(1 \in fails) \/ ~shouldLog(l, level)
        source == extractSourceFromMessage(msg)
        detectedSource == IF source # NoSource THEN source ELSE detectCallingSource(stackLines)
        tracked == IF detectedSource # NoSource THEN trackDiscoveredSource(detectedSource)
                   ELSE [cache |-> discoveredSourcesCache, tasks |-> pending]
        blocked == isSourceDisabled(detectedSource, 2 \in fails, 3 \in fails)
        formattedMsg == formatMessage(l, msg, detectedSource)
        sink == logToConsole(l, level, formattedMsg, args, hasConsole, t)
        failedRead == IF ~ReadsStore THEN 0
                      ELSE IF 1 \in fails THEN 1
                      ELSE IF early THEN 0
                      ELSE IF 2 \in fails THEN 2
                      ELSE IF detectedSource # NoSource /\ 3 \in fails THEN 3
                      ELSE 0
    IN IF early
       THEN [cache |-> discoveredSourcesCache, tasks |-> pending, entries |-> logEntries[l],
             write |-> <<>>, threw |-> FALSE, label |-> detectedSource,
             failedRead |-> failedRead,
             exit |-> IF isGlobalLoggingDisabled(1 \in fails) THEN "global" ELSE "level"]
       ELSE IF blocked
       THEN [cache |-> tracked.cache, tasks |-> tracked.tasks, entries |-> logEntries[l],
             write |-> <<>>, threw |-> FALSE, label |-> detectedSource,
             failedRead |-> failedRead,
             exit |-> IF isGlobalLoggingDisabled(2 \in fails) THEN "global" ELSE "source"]
       ELSE [cache |-> tracked.cache, tasks |-> tracked.tasks,
             entries |-> addToHistory(logEntries[l], level, formattedMsg, detectedSource, args, t),
             write |-> sink.write, threw |-> sink.threw, label |-> detectedSource,
             failedRead |-> failedRead, exit |-> "sink"]

(* ------------------------------------------------------------------ *)
(* Actions                                                             *)
(* ------------------------------------------------------------------ *)
\* last, after an operation that is not a log call; rejected: the promise of
\* a deferred task was rejected (and the rejection swallowed by its .catch)
Idle ==
    [op |-> "other", logger |-> 0, level |-> None, label |-> NoSource, failedRead |-> 0,
     hasConsole |-> TRUE, threw |-> FALSE, recorded |-> FALSE, channel |-> None,
     rejected |-> FALSE]

\* a log call on a class whose logEntries is shared by its instances (a
\* static field): the entry lands in every logger's history
LogCallSharedHistory(l, level, msg, stackLines, args, fails, hasConsole) ==
    LET r == log(l, level, msg, stackLines, args, fails, hasConsole) IN
    /\ now' = now + 1
    /\ discoveredSourcesCache' = r.cache
    /\ pending' = r.tasks
    /\ logEntries' = [k \in Loggers |->
                         IF r.entries # logEntries[l]
                         THEN Append(logEntries[k], r.entries[Len(r.entries)])
                         ELSE logEntries[k]]
    /\ console' = console \o r.write
    /\ last' = [op |-> "log", logger |-> l, level |-> level, label |-> r.label,
                failedRead |-> r.failedRead, hasConsole |-> hasConsole, threw |-> r.threw,
                recorded |-> r.entries # logEntries[l],
                channel |-> IF r.write = <<>> THEN None ELSE r.write[1].channel,
                rejected |-> FALSE]
    /\ callLog' = Append(callLog, [logger |-> l, level |-> level, label |-> r.label,
                                   exit |-> r.exit])
    /\ UNCHANGED <<env, storeReference, isStoreConnected, storeState, options,
                   heldHistory, heldSources>>

\* trace / debug / info / warn / error / fatal on logger l.  last.label is the
\* label the message and the call site carry, whether or not the call got as
\* far as resolving it.
LogCall(l, level, msg, stackLines, args, fails, hasConsole) ==
    LET r == log(l, level, msg, stackLines, args, fails, hasConsole) IN
    /\ now' = now + 1
    /\ discoveredSourcesCache' = r.cache
    /\ pending' = r.tasks
    /\ logEntries' = [logEntries EXCEPT ![l] = r.entries]
    /\ console' = console \o r.write
    /\ last' = [op |-> "log", logger |-> l, level |-> level, label |-> r.label,
                failedRead |-> r.failedRead, hasConsole |-> hasConsole, threw |-> r.threw,
                recorded |-> r.entries # logEntries[l],
                channel |-> IF r.write = <<>> THEN None ELSE r.write[1].channel,
                rejected |-> FALSE]
    /\ callLog' = Append(callLog, [logger |-> l, level |-> level, label |-> r.label,
                                   exit |-> r.exit])
    /\ UNCHANGED <<env, storeReference, isStoreConnected, storeState, options,
                   heldHistory, heldSources>>

\* the stacks worth telling apart for msg: the stack is read only when the
\* message carries no bracketed source
StacksFor(msg) == IF extractSourceFromMessage(msg) # NoSource THEN {StackFile} ELSE Stacks

\* the failures of getState worth telling apart: none when no call reads the store
FailSetsNow == IF ReadsStore THEN FailSets ELSE {{}}

\* a log call with its inputs drawn from the given sets
LogFrom(Ls, Lvls, Msgs, Stks, Args, Fls, Cons) ==
    \E l \in Ls, level \in Lvls, msg \in Msgs, args \in Args, hasConsole \in Cons :
        \E stackLines \in StacksFor(msg) \cap Stks, fails \in FailSetsNow \cap Fls :
            LogCall(l, level, msg, stackLines, args, fails, hasConsole)

Log ==
    /\ now < MaxCalls
    /\ LogFrom(Loggers, LogLevel, Messages, Stacks, ArgLists, FailSets, BOOLEAN)

\* the calls of SpecSeq: the store is healthy and the console present
LogSeq ==
    /\ now < SeqCalls
    /\ LogFrom(Loggers, {"debug", "warn"}, {MsgA, MsgPlain}, {StackFile}, {<<"obj">>},
               {{}}, {TRUE})

\* the calls of SpecHist: info('x', 'obj') on the default logger, from file B
LogHist ==
    /\ now < maxEntries + ExtraCalls
    /\ LogCall(1, "info", MsgPlain, StackFile, <<"obj">>, {}, TRUE)

\* setLoggerStore that starts the discovery cache afresh for the new store
SetLoggerStoreResettingCache ==
    \E s \in Stores :
        /\ storeReference # s
        /\ storeReference' = s
        /\ isStoreConnected' = TRUE
        /\ discoveredSourcesCache' = <<>>
        /\ last' = Idle
        /\ UNCHANGED <<env, pending, storeState, options,
                       logEntries, console, now, callLog, heldHistory, heldSources>>

\* Logger.ts: setLoggerStore
SetLoggerStore ==
    \E s \in Stores :
        /\ storeReference # s
        /\ storeReference' = s
        /\ isStoreConnected' = TRUE
        /\ last' = Idle
        /\ UNCHANGED <<env, discoveredSourcesCache, pending, storeState, options,
                       logEntries, console, now, callLog, heldHistory, heldSources>>

\* the deferred task without the second test of storeReference.dispatch and
\* without the .catch: a dispatch that is absent or throws raises
NotifyUnguarded ==
    \E source \in pending, throws \in BOOLEAN :
        LET dispatches == storeReference # None /\ storeState[storeReference].dispatch IN
        /\ throws => dispatches
        /\ pending' = pending \ {source}
        /\ storeState' =
               IF dispatches /\ ~throws
               THEN [storeState EXCEPT ![storeReference] =
                        dispatch(@, [type |-> "addDiscoveredSource", payload |-> source])]
               ELSE storeState
        /\ last' = [Idle EXCEPT !.op = "notify", !.rejected = throws,
                                !.threw = throws \/ ~dispatches]
        /\ UNCHANGED <<env, storeReference, isStoreConnected, discoveredSourcesCache,
                       options, logEntries, console, now, callLog, heldHistory, heldSources>>

\* the deferred task dispatching to a store reference captured once, store
\* s1, whichever store is attached when it runs
NotifyCapturedStore ==
    \E source \in pending, throws \in BOOLEAN :
        /\ pending' = pending \ {source}
        /\ storeState' =
               IF ~throws
               THEN [storeState EXCEPT !["s1"] =
                        dispatch(@, [type |-> "addDiscoveredSource", payload |-> source])]
               ELSE storeState
        /\ last' = [Idle EXCEPT !.op = "notify", !.rejected = throws]
        /\ UNCHANGED <<env, storeReference, isStoreConnected, discoveredSourcesCache,
                       options, logEntries, console, now, callLog, heldHistory, heldSources>>

\* The deferred task of trackDiscoveredSource: the .then callback, whose
\* dispatch may throw into the .catch.
Notify ==
    \E source \in pending, throws \in BOOLEAN :
        LET dispatches == storeReference # None /\ storeState[storeReference].dispatch IN
        /\ throws => dispatches
        /\ pending' = pending \ {source}
        /\ storeState' =
               IF dispatches /\ ~throws
               THEN [storeState EXCEPT ![storeReference] =
                        dispatch(@, [type |-> "addDiscoveredSource", payload |-> source])]
               ELSE storeState
        /\ last' = [Idle EXCEPT !.op = "notify", !.rejected = throws]
        /\ UNCHANGED <<env, storeReference, isStoreConnected, discoveredSourcesCache,
                       options, logEntries, console, now, callLog, heldHistory, heldSources>>

\* the application's Redux store: the one its code dispatches to and the one
\* LoggingControl gets from useAppDispatch
PanelStore == "s1"

\* the writes to the store that last names: reset and disable-all
NamedWrites == {"resetLoggingSettings", "disableAllSources"}

\* store.dispatch(action) by the host application, which imports the action
\* creators from the package and dispatches them in any environment
AppDispatch(action) ==
    /\ storeState' = [storeState EXCEPT ![PanelStore] = dispatch(@, action)]
    /\ last' = IF action.type \in NamedWrites THEN [Idle EXCEPT !.op = action.type] ELSE Idle
    /\ UNCHANGED <<env, storeReference, isStoreConnected, discoveredSourcesCache, pending,
                   options, logEntries, console, now, callLog, heldHistory, heldSources>>

ToggleSourceLogging ==
    \E source \in Sources : AppDispatch([type |-> "toggleSourceLogging", payload |-> source])
SetSourceLogging ==
    \E source \in Sources, disabled \in BOOLEAN :
        AppDispatch([type |-> "setSourceLogging",
                     payload |-> [source |-> source, disabled |-> disabled]])
ToggleGlobalLogging == AppDispatch([type |-> "toggleGlobalLogging"])
SetGlobalLogging ==
    \E payload \in BOOLEAN : AppDispatch([type |-> "setGlobalLogging", payload |-> payload])
ResetLoggingSettings == AppDispatch([type |-> "resetLoggingSettings"])
EnableAllSources == AppDispatch([type |-> "enableAllSources"])
DisableAllSources == AppDispatch([type |-> "disableAllSources"])

\* LoggingControl with the prop enabled and the local state isExpanded shows
\* its controls: it returns null when !enabled || import.meta.env.PROD, and
\* the collapsed button alone when !isExpanded
PanelShown(enabled, isExpanded) == ~(~enabled \/ env.PROD) /\ isExpanded

\* LoggingControl: globalLoggingEnabled, what the global switch shows
globalLoggingEnabled == ~selectIsGlobalLoggingDisabled(storeState[PanelStore])

\* LoggingControl: isSourceEnabled, what the switch of a source shows
isSourceEnabled(source) ==
    ~includes(selectDisabledLogSources(storeState[PanelStore]), source)

\* a handler of LoggingControl dispatching to the store: there is one only
\* while the controls are shown
PanelWrite(action) ==
    /\ \E enabled \in BOOLEAN, isExpanded \in BOOLEAN : PanelShown(enabled, isExpanded)
    /\ storeState' = [storeState EXCEPT ![PanelStore] = dispatch(@, action)]
    /\ last' = IF action.type \in NamedWrites THEN [Idle EXCEPT !.op = action.type] ELSE Idle
    /\ UNCHANGED <<env, storeReference, isStoreConnected, discoveredSourcesCache, pending,
                   options, logEntries, console, now, callLog, heldHistory, heldSources>>

\* the user flips the global switch: checked is the opposite of what it shows
handleGlobalToggle ==
    \E checked \in BOOLEAN :
        /\ checked = ~globalLoggingEnabled
        /\ PanelWrite([type |-> "setGlobalLogging", payload |-> ~checked])
\* the user flips the switch of a listed source (commonLogSources is a prop)
handleSourceToggle ==
    \E source \in Sources, checked \in BOOLEAN :
        /\ checked = ~isSourceEnabled(source)
        /\ PanelWrite([type |-> "setSourceLogging",
                       payload |-> [source |-> source, disabled |-> ~checked]])
handleReset == PanelWrite([type |-> "resetLoggingSettings"])
handleEnableAll == PanelWrite([type |-> "enableAllSources"])
handleDisableAll == PanelWrite([type |-> "disableAllSources"])

\* the sources a caller of the store's actions names
StoreSources == {SrcA, SrcB, SrcLowerA}

\* store.dispatch(action) by any holder of the application's store.  last keeps the
\* action and the logging slice the store held before it.
StoreDispatch(action) ==
    /\ storeState' = [storeState EXCEPT ![PanelStore] = dispatch(@, action)]
    /\ last' = [op |-> "dispatch", action |-> action,
                before |-> storeState[PanelStore].logging[1]]
    /\ UNCHANGED <<env, storeReference, isStoreConnected, discoveredSourcesCache, pending,
                   options, logEntries, console, now, callLog, heldHistory, heldSources>>

DispatchToggleSourceLogging ==
    \E source \in StoreSources :
        StoreDispatch([type |-> "toggleSourceLogging", payload |-> source])
DispatchSetSourceLogging ==
    \E source \in StoreSources, disabled \in BOOLEAN :
        StoreDispatch([type |-> "setSourceLogging",
                       payload |-> [source |-> source, disabled |-> disabled]])
DispatchToggleGlobalLogging == StoreDispatch([type |-> "toggleGlobalLogging"])
DispatchSetGlobalLogging ==
    \E payload \in BOOLEAN : StoreDispatch([type |-> "setGlobalLogging", payload |-> payload])
DispatchResetLoggingSettings == StoreDispatch([type |-> "resetLoggingSettings"])
DispatchAddDiscoveredSource ==
    \E source \in StoreSources :
        StoreDispatch([type |-> "addDiscoveredSource", payload |-> source])
DispatchEnableAllSources == StoreDispatch([type |-> "enableAllSources"])
DispatchDisableAllSources == StoreDispatch([type |-> "disableAllSources"])
DispatchSetLogLevel == StoreDispatch([type |-> "setLogLevel", payload |-> "debug"])
\* dispatch({ type: 'logging/setDisabledSources', payload: [...] }), the action
\* the README and the reducer's tests name
DispatchSetDisabledSources ==
    \E payload \in {<<>>, <<SrcA>>, <<SrcB, SrcA>>} :
        StoreDispatch([type |-> "setDisabledSources", payload |-> payload])

\* clearHistory that empties the discovery cache along with the history
ClearHistoryAndDiscovered ==
    \E l \in Loggers :
        /\ logEntries' = [logEntries EXCEPT ![l] = <<>>]
        /\ discoveredSourcesCache' = <<>>
        /\ last' = Idle
        /\ UNCHANGED <<env, storeReference, isStoreConnected, pending,
                       storeState, options, console, now, callLog, heldHistory, heldSources>>

\* Logger.ts: clearHistory
ClearHistory ==
    \E l \in Loggers :
        /\ logEntries' = [logEntries EXCEPT ![l] = <<>>]
        /\ last' = Idle
        /\ UNCHANGED <<env, storeReference, isStoreConnected, discoveredSourcesCache, pending,
                       storeState, options, console, now, callLog, heldHistory, heldSources>>

(* ------------------------------------------------------------------ *)
(* A caller holding what getHistory and getDiscoveredSources returned  *)
(* ------------------------------------------------------------------ *)
\* The array getHistory returned is a new array whose elements are the entry
\* objects of the history themselves.  An entry object is identified by the
\* tick of the clock at which it was made (one entry at most per tick); 0
\* identifies an object the caller made.  The caller writes to the level of an
\* entry only, so that the identity is never written to.
NotHeld == [logger |-> 0, refs |-> <<>>]

\* const h = logger.getHistory()
GetHistory ==
    \E l \in Loggers :
        /\ heldHistory' = [logger |-> l,
                           refs |-> [i \in 1..Len(getHistory(l)) |-> getHistory(l)[i].timestamp]]
        /\ last' = Idle
        /\ UNCHANGED <<env, storeReference, isStoreConnected, discoveredSourcesCache, pending,
                       storeState, options, logEntries, console, now, callLog, heldSources>>

\* a write of the caller to the array it holds
HeldArrayWrite(refs) ==
    /\ heldHistory.logger # 0
    /\ refs # heldHistory.refs
    /\ heldHistory' = [heldHistory EXCEPT !.refs = refs]
    /\ last' = Idle
    /\ UNCHANGED <<env, storeReference, isStoreConnected, discoveredSourcesCache, pending,
                   storeState, options, logEntries, console, now, callLog, heldSources>>

\* h.push({...}) while h is shorter than the calls made so far
HeldPush == Len(heldHistory.refs) < now /\ HeldArrayWrite(Append(heldHistory.refs, 0))
\* h.pop()
HeldPop ==
    /\ heldHistory.refs # <<>>
    /\ HeldArrayWrite(SubSeq(heldHistory.refs, 1, Len(heldHistory.refs) - 1))
\* h.reverse()
HeldReverse ==
    HeldArrayWrite([i \in 1..Len(heldHistory.refs) |->
                       heldHistory.refs[Len(heldHistory.refs) + 1 - i]])

\* h[i].level = level: a write to the object h[i] refers to, wherever else
\* that object is referred to
HeldSetLevel ==
    \E i \in 1..Len(heldHistory.refs), level \in {"trace"} :
        /\ heldHistory.refs[i] # 0
        /\ logEntries' =
               [l \in Loggers |->
                   [k \in 1..Len(logEntries[l]) |->
                       IF logEntries[l][k].timestamp = heldHistory.refs[i]
                       THEN [logEntries[l][k] EXCEPT !.level = level]
                       ELSE logEntries[l][k]]]
        /\ last' = [Idle EXCEPT !.op = "heldWrite"]
        /\ UNCHANGED <<env, storeReference, isStoreConnected, discoveredSourcesCache, pending,
                       storeState, options, console, now, callLog, heldHistory, heldSources>>

\* const d = logger.getDiscoveredSources(), on any logger
GetDiscoveredSources ==
    /\ heldSources' = <<[at |-> now, list |-> getDiscoveredSources]>>
    /\ heldSources' # heldSources
    /\ last' = Idle
    /\ UNCHANGED <<env, storeReference, isStoreConnected, discoveredSourcesCache, pending,
                   storeState, options, logEntries, console, now, callLog, heldHistory>>

\* mockEnv.X = ...: the environment changes while the loggers exist
SetEnv ==
    \E e \in {EnvEarly, EnvLevel, EnvBad} :
        /\ e # env
        /\ env' = e
        /\ last' = Idle
        /\ UNCHANGED <<storeReference, isStoreConnected, discoveredSourcesCache, pending,
                       storeState, options, logEntries, console, now, callLog,
                       heldHistory, heldSources>>

\* l = new SourceAwareLogger(opts): a new instance in the place of logger l
Construct ==
    \E l \in Loggers, opts \in {OptsNone, OptsSecond, OptsBad} :
        /\ options' = [options EXCEPT ![l] = SourceAwareLogger(opts, env)]
        /\ logEntries' = [logEntries EXCEPT ![l] = <<>>]
        /\ last' = Idle
        /\ UNCHANGED <<env, storeReference, isStoreConnected, discoveredSourcesCache, pending,
                       storeState, console, now, callLog, heldHistory, heldSources>>

\* the calls of SpecEnv: trace('x'), debug('x'), info('x'), warn('x') and
\* error('x') from file B
LogEnv ==
    /\ now < SnapCalls
    /\ LogFrom(Loggers, {"trace", "debug", "info", "warn", "error"}, {MsgPlain}, {StackFile}, {<<>>},
               {{}}, {TRUE})

\* the calls of SpecScn: debug and info of '[A] x' and '[B] x', on either logger
LogScn ==
    /\ now < SnapCalls
    /\ LogFrom(Loggers, {"debug", "info"}, {MsgA, MsgB}, {StackFile}, {<<>>}, {{}}, {TRUE})

\* the calls of SpecSnap: warn('[A] x') and warn('x') from file B, on either logger
LogSnap ==
    /\ now < SnapCalls
    /\ LogFrom(Loggers, {"warn"}, {MsgA, MsgPlain}, {StackFile}, {<<>>}, {{}}, {TRUE})

(* ------------------------------------------------------------------ *)
(* Specifications                                                      *)
(* ------------------------------------------------------------------ *)
\* The module as loaded in an environment of E: no store attached, the default
\* logger built from the environment, a second logger built with options of
\* its own.
Loaded(E) ==
    /\ env \in E
    /\ storeReference = None
    /\ isStoreConnected = FALSE
    /\ discoveredSourcesCache = <<>>
    /\ pending = {}
    /\ storeState = [s \in Stores |-> CASE s = "s1" -> ReduxStore(initialState)
                                         [] s = "s2" -> PresetStore
                                         [] s = "s3" -> BareStore]
    /\ options = [l \in Loggers |-> IF l = 1 THEN SourceAwareLogger(OptsNone, env)
                                    ELSE SourceAwareLogger(OptsSecond, env)]
    /\ logEntries = [l \in Loggers |-> <<>>]
    /\ console = <<>>
    /\ now = 0
    /\ callLog = <<>>
    /\ last = [Idle EXCEPT !.op = "init"]
    /\ heldHistory = NotHeld
    /\ heldSources = <<>>

Init == Loaded(Envs)

Next ==
    \/ Log
    \/ SetLoggerStore
    \/ Notify
    \/ ToggleSourceLogging
    \/ SetSourceLogging
    \/ ToggleGlobalLogging
    \/ SetGlobalLogging
    \/ ResetLoggingSettings
    \/ EnableAllSources
    \/ DisableAllSources
    \/ ClearHistory
    \/ handleGlobalToggle
    \/ handleSourceToggle
    \/ handleReset
    \/ handleEnableAll
    \/ handleDisableAll

Spec == Init /\ [][Next]_vars

\* Sequences of calls: early logging allowed by the environment, so that calls
\* made before a store is attached are decided by level and source.
InitSeq == Loaded({EnvEarly})

NextSeq ==
    \/ LogSeq
    \/ SetLoggerStore
    \/ Notify
    \/ ToggleSourceLogging
    \/ SetSourceLogging
    \/ ToggleGlobalLogging
    \/ SetGlobalLogging
    \/ ResetLoggingSettings
    \/ EnableAllSources
    \/ DisableAllSources
    \/ ClearHistory

SpecSeq == InitSeq /\ [][NextSeq]_vars

\* The history at its capacity: one call after another on the default logger,
\* with early logging allowed and no store attached.
NextHist == LogHist

SpecHist == InitSeq /\ [][NextHist]_vars

\* Callers that keep what getHistory and getDiscoveredSources returned, and
\* write to it, with no store attached and early logging allowed.
NextSnap ==
    \/ LogSnap
    \/ ClearHistory
    \/ GetHistory
    \/ HeldPush
    \/ HeldPop
    \/ HeldReverse
    \/ HeldSetLevel
    \/ GetDiscoveredSources

SpecSnap == InitSeq /\ [][NextSnap]_vars

\* An environment that changes and loggers constructed anew, with early
\* logging allowed and no store attached.
InitEnv == Loaded({EnvEarly, EnvLevel})

NextEnv ==
    \/ LogEnv
    \/ SetEnv
    \/ Construct

SpecEnv == InitEnv /\ [][NextEnv]_vars

\* The module loaded in the default environment and setLoggerStore called
\* with a store whose state has logging enabled, B disabled and nothing
\* discovered.
InitScn ==
    /\ env = EnvDefault
    /\ storeReference = "s2"
    /\ isStoreConnected = TRUE
    /\ discoveredSourcesCache = <<>>
    /\ pending = {}
    /\ storeState = [s \in Stores |-> CASE s = "s1" -> ReduxStore(initialState)
                                         [] s = "s2" -> PresetStore
                                         [] s = "s3" -> BareStore]
    /\ options = [l \in Loggers |-> IF l = 1 THEN SourceAwareLogger(OptsNone, env)
                                    ELSE SourceAwareLogger(OptsSecond, env)]
    /\ logEntries = [l \in Loggers |-> <<>>]
    /\ console = <<>>
    /\ now = 0
    /\ callLog = <<>>
    /\ last = [Idle EXCEPT !.op = "init"]
    /\ heldHistory = NotHeld
    /\ heldSources = <<>>

NextScn ==
    \/ LogScn
    \/ Notify

SpecScn == InitScn /\ [][NextScn]_vars

\* The store on its own: the exported actions dispatched to a store in its
\* initial state, in any order.
InitStore == Loaded({EnvDefault})

NextStore ==
    \/ DispatchToggleSourceLogging
    \/ DispatchSetSourceLogging
    \/ DispatchToggleGlobalLogging
    \/ DispatchSetGlobalLogging
    \/ DispatchResetLoggingSettings
    \/ DispatchAddDiscoveredSource
    \/ DispatchEnableAllSources
    \/ DispatchDisableAllSources
    \/ DispatchSetLogLevel
    \/ DispatchSetDisabledSources

SpecStore == InitStore /\ [][NextStore]_vars

(* ------------------------------------------------------------------ *)
(* Vocabulary of the claims                                            *)
(* ------------------------------------------------------------------ *)
\* the position of a level in the fixed order trace < debug < ... < fatal
Ordinal(level) ==
    CASE level = "trace" -> 0 [] level = "debug" -> 1 [] level = "info" -> 2
      [] level = "warn" -> 3 [] level = "error" -> 4 [] level = "fatal" -> 5

\* the logging slice of the attached store: <<>> without a store or a slice
AttachedLogging == IF storeReference = None THEN <<>> ELSE storeState[storeReference].logging

\* the 'disable all' override of the environment is 'true'
EnvDisableAll == env.VITE_DISABLE_ALL_LOGGING = "true"

\* the attached store's state has isGloballyDisabled = true
StoreGloballyDisabled == AttachedLogging # <<>> /\ AttachedLogging[1].isGloballyDisabled

\* a store is attached, its state has global logging enabled, and the
\* environment does not disable all logging
AttachedAndEnabled ==
    /\ storeReference # None
    /\ AttachedLogging # <<>>
    /\ ~AttachedLogging[1].isGloballyDisabled
    /\ ~EnvDisableAll

\* a step that is a log call
IsLogCall == now' = now + 1

\* a step that appends nothing to any history and writes nothing to the console
NothingRecordedOrWritten == logEntries' = logEntries /\ console' = console

\* a step in which logger l records exactly one entry, for the label of the
\* call, and hands it to the sink: one write, unless the console is absent or
\* the formatter throws
RecordedAndEmitted(l) ==
    /\ Len(logEntries'[l]) = Len(logEntries[l]) + 1
    /\ logEntries'[l][Len(logEntries'[l])].source = last'.label
    /\ logEntries'[l][Len(logEntries'[l])].level = last'.level
    /\ \A k \in Loggers \ {l} : logEntries'[k] = logEntries[k]
    /\ IF last'.hasConsole /\ options[l].formatter # "throws"
       THEN Len(console') = Len(console) + 1
       ELSE console' = console

NoDuplicates(arr) == \A i, j \in 1..Len(arr) : arr[i] = arr[j] => i = j

(* ------------------------------------------------------------------ *)
(* Claims                                                              *)
(* ------------------------------------------------------------------ *)
\* C1: a log call made while global-disable is asserted (the environment's
\* 'disable all' override is 'true', or the attached store's state has
\* isGloballyDisabled = true), at any level and with any source or none,
\* appends nothing to history and writes nothing to the console.
C1_GlobalDisableSuppresses ==
    [][(IsLogCall /\ (EnvDisableAll \/ StoreGloballyDisabled)) => NothingRecordedOrWritten]_vars

\* a fatal call from source A was just made on the default logger while only
\* the attached store's flag disabled logging
C1_Witness ==
    /\ last.op = "log" /\ last.logger = 1 /\ last.level = "fatal" /\ last.label = SrcA
    /\ ~EnvDisableAll /\ StoreGloballyDisabled
    /\ last.failedRead = 0 /\ ~last.recorded /\ last.channel = None

\* C2: a call at a level strictly below the logger's configured minimum level
\* is never recorded and never written, whatever its source and the store.
C2_BelowMinimumSuppressed ==
    [][\A l \in Loggers :
          (/\ IsLogCall /\ last'.logger = l
           /\ options[l].minLevel \in LogLevel
           /\ Ordinal(last'.level) < Ordinal(options[l].minLevel))
          => NothingRecordedOrWritten]_vars

\* an info call from source A was just made on the logger whose minimum is
\* warn, with a store attached that disables neither logging nor A
C2_Witness ==
    /\ last.op = "log" /\ last.logger = 2 /\ last.level = "info" /\ last.label = SrcA
    /\ options[2].minLevel = "warn"
    /\ AttachedAndEnabled /\ ~includes(AttachedLogging[1].disabledSources, SrcA)
    /\ last.failedRead = 0 /\ ~last.recorded

\* C3: with a store attached whose reads succeed and global logging enabled, a
\* call at level >= min whose source is in the store's disabledSources is
\* suppressed, and a call at level >= min whose source is not (or no longer)
\* in it is recorded and emitted.
C3_DisabledSourceSuppressedUntilRemoved ==
    [][\A l \in Loggers :
          (/\ IsLogCall /\ last'.logger = l /\ last'.failedRead = 0
           /\ AttachedAndEnabled
           /\ options[l].minLevel \in LogLevel
           /\ Ordinal(last'.level) >= Ordinal(options[l].minLevel)
           /\ last'.label # NoSource)
          => IF includes(AttachedLogging[1].disabledSources, last'.label)
             THEN NothingRecordedOrWritten
             ELSE RecordedAndEmitted(l)]_vars

\* two calls from A on the default logger: the first stopped by the per-source
\* rule, the second, after A left the attached store's list, written to warn
C3_Witness ==
    /\ Len(callLog) = 2
    /\ callLog[1].logger = 1 /\ callLog[1].label = SrcA /\ callLog[1].exit = "source"
    /\ callLog[2].logger = 1 /\ callLog[2].label = SrcA /\ callLog[2].exit = "sink"
    /\ last.op = "log" /\ last.recorded /\ last.channel = "warn"
    /\ storeReference = "s1" /\ AttachedAndEnabled
    /\ ~includes(AttachedLogging[1].disabledSources, SrcA)

\* the environment list as the engine reads it: split at commas, each piece
\* trimmed and lower-cased
EnvDisabledList ==
    LET raw == IF env.VITE_DISABLED_LOG_SOURCES = <<>> THEN <<>>
               ELSE split(env.VITE_DISABLED_LOG_SOURCES[1])
    IN [i \in 1..Len(raw) |-> toLowerCase(trim(raw[i]))]

\* the disabled-sources list the engine consults: the attached store's list,
\* or the environment's when no store is attached
ConsultedDisabledSources ==
    IF storeReference = None THEN EnvDisabledList
    ELSE IF AttachedLogging = <<>> THEN <<>>
    ELSE AttachedLogging[1].disabledSources

\* rule 1: the environment disables all logging, or no store is attached and
\* early logging is not allowed, or the attached store's state disables
\* logging (a state without the logging slice counts as disabled)
GlobalRuleApplies ==
    \/ EnvDisableAll
    \/ storeReference = None /\ env.VITE_ENABLE_EARLY_LOGGING # "true"
    \/ storeReference # None /\ (AttachedLogging = <<>> \/ StoreGloballyDisabled)

\* C4: a log call whose store reads succeed is recorded and handed to the sink
\* exactly when the global rule does not apply, its level is at least the
\* minimum level, and its source is absent or not in the consulted
\* disabled-sources list; no call writes without being recorded.
C4_EmittedIffNoRuleApplies ==
    [][\A l \in Loggers :
          (IsLogCall /\ last'.logger = l /\ last'.failedRead = 0
           /\ options[l].minLevel \in LogLevel)
          => IF /\ ~GlobalRuleApplies
                /\ Ordinal(last'.level) >= Ordinal(options[l].minLevel)
                /\ (last'.label = NoSource
                    \/ ~includes(ConsultedDisabledSources, last'.label))
             THEN RecordedAndEmitted(l)
             ELSE NothingRecordedOrWritten]_vars

\* an error call without any source was just recorded and written on the
\* default logger while the attached store's disabled list is not empty
C4_Witness ==
    /\ last.op = "log" /\ last.logger = 1 /\ last.level = "error" /\ last.label = NoSource
    /\ AttachedAndEnabled /\ AttachedLogging[1].disabledSources # <<>>
    /\ last.recorded /\ last.channel = "error"

\* C5: while no store has been attached and the early-logging override is not
\* 'true', every log call is suppressed, whatever its level and source.
C5_NoStoreNoEarlyLoggingSuppresses ==
    [][(/\ IsLogCall
        /\ storeReference = None /\ ~isStoreConnected
        /\ env.VITE_ENABLE_EARLY_LOGGING # "true")
       => NothingRecordedOrWritten]_vars

\* an error call from file B was just made with no store attached and an
\* environment that sets no override at all
C5_Witness ==
    /\ last.op = "log" /\ last.level = "error" /\ last.label = SrcB
    /\ storeReference = None /\ env = EnvDefault
    /\ ~last.recorded /\ last.channel = None

\* C6: a log call during which a read of the store's state throws is
\* suppressed, whichever of its reads it is.
C6_FailedReadSuppresses ==
    (last.op = "log" /\ last.failedRead # 0) => (~last.recorded /\ last.channel = None)

\* C7: no log call raises to its caller.
C7_LogCallNeverRaises == last.op = "log" => ~last.threw

\* C8: every log call that carries a source leaves that source in the
\* discovered set, whether or not the call was suppressed.
C8_DiscoveredEvenWhenSuppressed ==
    (last.op = "log" /\ last.label # NoSource) => includes(getDiscoveredSources, last.label)

\* C9: the discovered set never holds a label twice, and a log call whose
\* source is already in it leaves it, and the list getDiscoveredSources
\* returns, unchanged.
C9_RegistrationIdempotent ==
    [][IsLogCall =>
          /\ NoDuplicates(getDiscoveredSources')
          /\ includes(discoveredSourcesCache, last'.label)
                => /\ discoveredSourcesCache' = discoveredSourcesCache
                   /\ getDiscoveredSources' = getDiscoveredSources]_vars

\* source A was registered by a call on one logger and then logged again on
\* the other, both calls getting past the first return
C9_Witness ==
    /\ Len(callLog) = 2
    /\ callLog[1].label = SrcA /\ callLog[2].label = SrcA
    /\ callLog[1].logger # callLog[2].logger
    /\ callLog[1].exit \in {"source", "sink"} /\ callLog[2].exit \in {"source", "sink"}
    /\ getDiscoveredSources = <<SrcA>>

\* C10: the history of the default logger never holds more than maxEntries
\* entries, and it holds the most recent calls in emission order: after n
\* approved calls it is the last min(n, maxEntries) of them, so that after
\* maxEntries + 1 calls the first is gone and the second is the oldest.
C10_HistoryBounded ==
    /\ \A l \in Loggers : Len(logEntries[l]) <= maxEntries
    /\ LET h == getHistory(1) IN
       /\ Len(h) = IF now <= maxEntries THEN now ELSE maxEntries
       /\ \A i \in 1..Len(h) : h[i].timestamp = now - Len(h) + i

\* one call more than the capacity has been recorded
C10_Witness ==
    /\ now = maxEntries + 1
    /\ Len(logEntries[1]) = maxEntries
    /\ logEntries[1][1].timestamp = 2
    /\ logEntries[1][maxEntries].timestamp = maxEntries + 1

\* a step in which the history of logger l loses entries; below its capacity
\* a history loses entries to clearHistory only
ClearsHistory(l) == Len(logEntries'[l]) < Len(logEntries[l])

\* C11: clearHistory makes the next getHistory of that logger return the empty
\* sequence and changes nothing else: the discovered sources, the options of
\* every logger, the attached store reference, the state of every store, the
\* pending notifications, the console and the other loggers' histories are
\* as they were.
C11_ClearHistoryOnlyEmptiesHistory ==
    [][\A l \in Loggers :
          ClearsHistory(l) =>
              /\ getHistory(l)' = <<>>
              /\ getDiscoveredSources' = getDiscoveredSources
              /\ \A k \in Loggers \ {l} : logEntries'[k] = logEntries[k]
              /\ UNCHANGED <<discoveredSourcesCache, options, storeReference,
                             isStoreConnected, storeState, pending, env, console>>]_vars

\* the default logger recorded a call from A with a store attached, and its
\* history was then cleared: the history is empty, A is still discovered
C11_Witness ==
    /\ Len(callLog) = 1 /\ callLog[1].logger = 1 /\ callLog[1].exit = "sink"
    /\ callLog[1].label = SrcA
    /\ getHistory(1) = <<>>
    /\ last.op = "other"
    /\ getDiscoveredSources = <<SrcA>>
    /\ storeReference = "s2" /\ options[1].minLevel = "info"
    /\ Len(console) = 1

\* C12: whatever a caller does to the array getHistory returned and to the
\* entries in it, a later getHistory returns the entries as they were
\* recorded: each holds the level of the call that made it.
C12_HistoryUntouchedByCallers ==
    \A l \in Loggers :
        \A i \in 1..Len(getHistory(l)) :
            LET entry == getHistory(l)[i] IN
            /\ entry.timestamp \in 1..Len(callLog)
            /\ entry.level = callLog[entry.timestamp].level
            /\ callLog[entry.timestamp].logger = l

\* a call that carried a source and got past the first return of log, when
\* no read of the store fails
Registers(call) == call.label # NoSource /\ call.exit \in {"source", "sink"}

\* the labels of the registering calls among calls, each once, in the order
\* of their first call
RECURSIVE FirstSeen(_)
FirstSeen(calls) ==
    IF calls = <<>> THEN <<>>
    ELSE LET before == FirstSeen(SubSeq(calls, 1, Len(calls) - 1))
             call == calls[Len(calls)]
         IN IF Registers(call) /\ ~includes(before, call.label)
            THEN Append(before, call.label) ELSE before

IsPrefix(a, b) == Len(a) <= Len(b) /\ \A i \in 1..Len(a) : a[i] = b[i]

\* C13: getDiscoveredSources returns the sources registered so far in the
\* order in which they were first seen; a list it returned earlier still
\* holds what was registered when it was returned, and is a prefix of what it
\* returns now.
C13_DiscoveredInFirstSeenOrder ==
    /\ getDiscoveredSources = FirstSeen(callLog)
    /\ heldSources # <<>> =>
           /\ heldSources[1].list = FirstSeen(SubSeq(callLog, 1, heldSources[1].at))
           /\ IsPrefix(heldSources[1].list, getDiscoveredSources)

\* a caller holds the list returned when only B was registered; A has been
\* registered since
C13_Witness ==
    /\ heldSources # <<>> /\ heldSources[1].list = <<SrcB>>
    /\ getDiscoveredSources = <<SrcB, SrcA>>

\* C14: a label in the discovery cache stays in it, at its place, through
\* every step: log calls, clearHistory, setLoggerStore, deferred
\* notifications and the writes to the store, reset and enable-all
\* included.  The cache only grows.
C14_DiscoveredOnlyGrows ==
    [][/\ IsPrefix(discoveredSourcesCache, discoveredSourcesCache')
       /\ \A i \in 1..Len(getDiscoveredSources) :
              includes(getDiscoveredSources', getDiscoveredSources[i])]_vars

\* A was registered by a call that the attached store's list stopped; since
\* then the list was emptied and another store attached, and A is still there
C14_Witness ==
    /\ Len(callLog) = 1 /\ callLog[1].label = SrcA /\ callLog[1].exit = "source"
    /\ storeReference = "s3"
    /\ storeState["s1"].logging[1].disabledSources = <<>>
    /\ getDiscoveredSources = <<SrcA>>

\* C15: discovery is shared by the instances, configuration and history are
\* not: a source registered by a call on one logger is in what
\* getDiscoveredSources returns, on whichever logger it is called, and a call
\* on one logger changes neither the history nor the options of another.
C15_DiscoverySharedHistoryPerInstance ==
    [][\A l \in Loggers :
          (IsLogCall /\ last'.logger = l) =>
              /\ Registers(callLog'[Len(callLog')]) =>
                     includes(getDiscoveredSources', last'.label)
              /\ \A k \in Loggers \ {l} :
                     /\ getHistory(k)' = getHistory(k)
                     /\ options'[k] = options[k]]_vars

\* A was registered by a call on the second logger, which recorded it; the
\* default logger, whose minimum level differs, then recorded a call from A
\* too, and each history holds its own entry
C15_Witness ==
    /\ Len(callLog) = 2
    /\ callLog[1].logger = 2 /\ callLog[1].label = SrcA /\ callLog[1].exit = "sink"
    /\ callLog[2].logger = 1 /\ callLog[2].label = SrcA /\ callLog[2].exit = "sink"
    /\ getDiscoveredSources = <<SrcA>>
    /\ Len(getHistory(1)) = 1 /\ getHistory(1)[1].timestamp = 2
    /\ Len(getHistory(2)) = 1 /\ getHistory(2)[1].timestamp = 1
    /\ options[1].minLevel # options[2].minLevel

\* what the decision of a log call reads of a store: the flag and the list
FilterState(s) ==
    IF storeState[s].logging = <<>> THEN <<>>
    ELSE <<storeState[s].logging[1].isGloballyDisabled,
           storeState[s].logging[1].disabledSources>>

\* the attached store is absent or has no dispatch
NoDispatch == storeReference = None \/ ~storeState[storeReference].dispatch

\* C16: the notification of the store is deferred and its failure is silent.
\* A log call that schedules one has the label in the local cache at once and,
\* when it reaches the sink, records and emits in that same call, with the
\* notification still pending.  A notification that runs raises nothing and
\* changes no history, no console output, no cache, no option and nothing a
\* later decision reads of a store; one that fails (its dispatch throws, or
\* the store has no dispatch by then) changes no store at all.
C16_NotificationDeferredAndSilent ==
    [][/\ \A l \in Loggers :
              (IsLogCall /\ last'.logger = l /\ pending' # pending) =>
                  /\ last'.label \in pending'
                  /\ includes(getDiscoveredSources', last'.label)
                  /\ callLog'[Len(callLog')].exit = "sink" => RecordedAndEmitted(l)
       /\ last'.op = "notify" =>
              /\ ~last'.threw
              /\ UNCHANGED <<logEntries, console, discoveredSourcesCache, options,
                             storeReference, isStoreConnected, env, now, callLog>>
              /\ \A s \in Stores : FilterState(s)' = FilterState(s)
              /\ (last'.rejected \/ NoDispatch) => storeState' = storeState]_vars

\* the notification for A, scheduled by a recorded call with a store attached,
\* ran and its dispatch threw: the store does not list A, the cache does
C16_Witness ==
    /\ last.op = "notify" /\ last.rejected /\ pending = {}
    /\ Len(callLog) = 1 /\ callLog[1].label = SrcA /\ callLog[1].exit = "sink"
    /\ getDiscoveredSources = <<SrcA>>
    /\ storeReference = "s2"
    /\ storeState["s2"].logging[1].discoveredSources = <<>>
    /\ Len(getHistory(callLog[1].logger)) = 1

\* C17: once a store with dispatch is attached and no notification is
\* pending, every label of the local cache is in that store's
\* discoveredSources, labels first seen before the store was attached
\* included.
C17_CacheMirroredInStore ==
    (/\ storeReference # None /\ ~NoDispatch
     /\ AttachedLogging # <<>>
     /\ pending = {})
    => \A i \in 1..Len(getDiscoveredSources) :
           includes(AttachedLogging[1].discoveredSources, getDiscoveredSources[i])

\* C18: a log call decides on the flag and the list the attached store holds
\* when the call is made, whatever they were at earlier calls: with a store
\* attached whose reads succeed, the call just made was recorded exactly when
\* the store's flag allows logging, the level is at least the minimum and
\* the source is absent or not in the store's list.  (A log call leaves the
\* store's flag and list as it found them.)
C18_DecidesOnCurrentStoreState ==
    (/\ last.op = "log" /\ last.failedRead = 0
     /\ storeReference # None /\ AttachedLogging # <<>>
     /\ ~EnvDisableAll
     /\ options[last.logger].minLevel \in LogLevel)
    => (last.recorded <=>
           /\ ~AttachedLogging[1].isGloballyDisabled
           /\ Ordinal(last.level) >= Ordinal(options[last.logger].minLevel)
           /\ (last.label = NoSource
               \/ ~includes(AttachedLogging[1].disabledSources, last.label)))

\* two warn calls from file B on the default logger with the panel's store
\* attached: the first stopped by the store's flag, the second, made after the
\* flag was cleared, recorded
C18_Witness ==
    /\ Len(callLog) = 2 /\ last.op = "log" /\ last.recorded
    /\ callLog[1].logger = 1 /\ callLog[1].label = SrcB /\ callLog[1].level = "warn"
    /\ callLog[1].exit = "global"
    /\ callLog[2].logger = 1 /\ callLog[2].label = SrcB /\ callLog[2].level = "warn"
    /\ callLog[2].exit = "sink"
    /\ storeReference = PanelStore /\ ~AttachedLogging[1].isGloballyDisabled

\* the minimum level the environment names, when it names a valid one
EnvOverride ==
    IF env.VITE_LOG_LEVEL # None /\ includes(levels, lowerLevel(env.VITE_LOG_LEVEL))
    THEN <<lowerLevel(env.VITE_LOG_LEVEL)>> ELSE <<>>

\* C19: when the environment names a valid minimum level, that level is the
\* threshold of the log call just made, on whichever logger: a call below it
\* was not recorded.
C19_EnvLevelIsThreshold ==
    (/\ last.op = "log"
     /\ EnvOverride # <<>>
     /\ Ordinal(last.level) < Ordinal(EnvOverride[1]))
    => ~last.recorded

\* C20: a call whose source is in the disabledSources option its logger was
\* constructed with is neither recorded nor written, whatever the store's
\* list holds.
C20_SeedListSuppresses ==
    (/\ last.op = "log"
     /\ includes(options[last.logger].disabledSources, last.label))
    => (~last.recorded /\ last.channel = None)

\* C21: a state without the logging slice reads as its fail-closed
\* defaults.  With such a store attached every log call is suppressed and the
\* logger reads the flag as true and the disabled list as empty; the
\* selectors give true and two empty lists for it.
C21_MissingSliceFailsClosed ==
    /\ (storeReference # None /\ AttachedLogging = <<>>) =>
           /\ last.op = "log" => (~last.recorded /\ last.channel = None)
           /\ isGlobalLoggingDisabled(FALSE)
           /\ env.VITE_DISABLE_ALL_LOGGING # "true" => getDisabledLogSources(FALSE) = <<>>
    /\ \A s \in Stores :
           storeState[s].logging = <<>> =>
               /\ selectIsGlobalLoggingDisabled(storeState[s])
               /\ selectDisabledLogSources(storeState[s]) = <<>>
               /\ selectDiscoveredSources(storeState[s]) = <<>>

\* a fatal call from A was just made, with early logging allowed by the
\* environment and a store attached whose state is {}: nothing was recorded
C21_Witness ==
    /\ last.op = "log" /\ last.level = "fatal" /\ last.label = SrcA /\ last.logger = 1
    /\ last.failedRead = 0
    /\ env = EnvEarly
    /\ storeReference = "s3" /\ AttachedLogging = <<>>
    /\ ~last.recorded /\ console = <<>>

\* C22: right after disable-all was applied to the attached store, a log call
\* from any source the logger has registered, its notification delivered or
\* not, would be stopped: isSourceDisabled answers true for it.
C22_DisableAllCoversDiscovered ==
    (last.op = "disableAllSources" /\ storeReference = PanelStore) =>
        \A i \in 1..Len(getDiscoveredSources) :
            isSourceDisabled(getDiscoveredSources[i], FALSE, FALSE)

\* the slice of the panel's store has an empty disabled list and the flag off
PanelStoreOpen ==
    /\ storeState[PanelStore].logging # <<>>
    /\ storeState[PanelStore].logging[1].disabledSources = <<>>
    /\ ~storeState[PanelStore].logging[1].isGloballyDisabled

\* C23: reset empties the store's disabled list, clears its flag and leaves
\* its discovered list, the other stores and the logger's own state as they
\* were.  With that store attached and the environment not disabling all
\* logging, no source is stopped by isSourceDisabled right after reset, and a
\* log call at level >= min made while the store is still in that state is
\* recorded and, with a console and a formatter that returns, written.
C23_ResetOpensEverySource ==
    /\ [][last'.op = "resetLoggingSettings" =>
             /\ PanelStoreOpen'
             /\ selectDiscoveredSources(storeState[PanelStore])' =
                    selectDiscoveredSources(storeState[PanelStore])
             /\ \A s \in Stores \ {PanelStore} : storeState'[s] = storeState[s]
             /\ UNCHANGED <<discoveredSourcesCache, pending, logEntries, console, options,
                            storeReference, isStoreConnected, env>>
             /\ (storeReference = PanelStore /\ ~EnvDisableAll) =>
                    \A source \in Sources \cup {NoSource} :
                        ~isSourceDisabled(source, FALSE, FALSE)']_vars
    /\ [](( /\ last.op = "log" /\ last.failedRead = 0
            /\ storeReference = PanelStore /\ PanelStoreOpen /\ ~EnvDisableAll
            /\ options[last.logger].minLevel \in LogLevel
            /\ Ordinal(last.level) >= Ordinal(options[last.logger].minLevel))
           => /\ last.recorded
              /\ (last.hasConsole /\ options[last.logger].formatter # "throws")
                     => last.channel # None)

\* reset was just applied to the attached store, which listed A as discovered
\* and had stopped a call from A: A is still listed as discovered
C23_Witness ==
    /\ last.op = "resetLoggingSettings"
    /\ storeReference = PanelStore /\ PanelStoreOpen
    /\ Len(callLog) = 1 /\ callLog[1].label = SrcA /\ callLog[1].exit = "source"
    /\ selectDiscoveredSources(storeState[PanelStore]) = <<SrcA>>
    /\ getDiscoveredSources = <<SrcA>>

\* the two calls made so far are info('[B] x') then info('[A] x') on the
\* default logger, with the attached store enabled and listing B as disabled
ScenarioCalls ==
    /\ storeReference = "s2"
    /\ selectDisabledLogSources(storeState["s2"]) = <<SrcB>>
    /\ ~selectIsGlobalLoggingDisabled(storeState["s2"])
    /\ Len(callLog) = 2
    /\ callLog[1].logger = 1 /\ callLog[1].level = "info" /\ callLog[1].label = SrcB
    /\ callLog[2].logger = 1 /\ callLog[2].level = "info" /\ callLog[2].label = SrcA

\* C24 as stated: after info('[B] x') and info('[A] x') with B disabled, the
\* first is suppressed, the second emitted, and the discovered set is {A}
C24_ScenarioDiscoversOnlyEmitted ==
    ScenarioCalls =>
        /\ callLog[1].exit = "source"
        /\ callLog[2].exit = "sink"
        /\ getDiscoveredSources = <<SrcA>>

\* C24: after info('[B] x') and info('[A] x') with B disabled in the store,
\* logging enabled and nothing discovered before, the first call is stopped
\* by the per-source rule, the second is recorded and written, and the
\* discovered set is B then A: the suppressed source is registered too.
C24_ScenarioDiscoversBoth ==
    ScenarioCalls =>
        /\ callLog[1].exit = "source"
        /\ callLog[2].exit = "sink"
        /\ Len(logEntries[1]) = 1
        /\ logEntries[1][1].source = SrcA /\ logEntries[1][1].message = MsgA
        /\ Len(console) = 1 /\ console[1].channel = "info"
        /\ getDiscoveredSources = <<SrcB, SrcA>>

\* the scenario has run and the notification of B has reached the store
C24_Witness ==
    /\ ScenarioCalls
    /\ last.op = "notify"
    /\ selectDiscoveredSources(storeState["s2"]) = <<SrcB>>
    /\ pending = {SrcA}
    /\ Len(logEntries[1]) = 1

\* the names the environment's comma-separated list holds, as written
EnvNamedSources ==
    LET raw == IF env.VITE_DISABLED_LOG_SOURCES = <<>> THEN <<>>
               ELSE split(env.VITE_DISABLED_LOG_SOURCES[1])
    IN [i \in 1..Len(raw) |-> trim(raw[i])]

\* C25: with no store attached, a call whose bracketed source is one of the
\* names of the environment's list is neither recorded nor written, and a call
\* whose source is none of them (compared exactly, case included) is recorded
\* when the global rule and the level let it through.
C25_EnvListMatchesExactly ==
    (last.op = "log" /\ storeReference = None /\ last.label # NoSource) =>
        /\ includes(EnvNamedSources, last.label) =>
               (~last.recorded /\ last.channel = None)
        /\ (/\ ~includes(EnvNamedSources, last.label)
            /\ ~EnvDisableAll /\ env.VITE_ENABLE_EARLY_LOGGING = "true"
            /\ options[last.logger].minLevel \in LogLevel
            /\ Ordinal(last.level) >= Ordinal(options[last.logger].minLevel))
           => last.recorded

\* The decision on the log call just made, from the attached store's state,
\* the outcome of its reads, the level threshold and the 'disable all'
\* override alone.
DecidedByStore ==
    /\ ~EnvDisableAll
    /\ last.failedRead \notin {1, 2}
    /\ AttachedLogging # <<>>
    /\ ~AttachedLogging[1].isGloballyDisabled
    /\ Ordinal(last.level) >= Ordinal(options[last.logger].minLevel)
    /\ \/ last.label = NoSource
       \/ last.failedRead = 3
       \/ ~includes(AttachedLogging[1].disabledSources, last.label)

\* C26: with a store attached, whether the log call just made was recorded,
\* and whether it reached the sink, is settled by the store's state, the level
\* threshold and the 'disable all' override: the same in every environment,
\* whatever its disabled-source list and early-logging flag are.
C26_EnvListAndEarlyFlagIgnoredOnceAttached ==
    (/\ last.op = "log"
     /\ storeReference # None
     /\ options[last.logger].minLevel \in LogLevel)
    => /\ last.recorded <=> DecidedByStore
       /\ (last.channel # None \/ last.threw) => DecidedByStore

\* a call from 'a', which the environment's list names, was just recorded with
\* a store attached that allows logging and does not list 'a'
C26_Witness ==
    /\ last.op = "log" /\ last.label = SrcLowerA /\ last.recorded
    /\ env = EnvEarly /\ includes(EnvDisabledList, SrcLowerA)
    /\ storeReference = "s2" /\ ~includes(AttachedLogging[1].disabledSources, SrcLowerA)

\* C27: each label is notified to the store at most once.  A deferred
\* notification is scheduled only by a log call, only for the label of that
\* call and only when the label was never seen before (it is not in the
\* discovery cache, which keeps every label it ever held); a scheduled
\* notification runs once, and a store's discovered list changes only when a
\* notification runs, by the addition of that one label to the attached store.
C27_OneNotificationPerLabel ==
    /\ [][/\ IsLogCall =>
               (/\ pending \subseteq pending'
                /\ pending' \ pending \subseteq {last'.label}
                /\ \A source \in pending' \ pending :
                       /\ ~includes(discoveredSourcesCache, source)
                       /\ includes(discoveredSourcesCache', source))
          /\ ~IsLogCall =>
               (/\ pending' \subseteq pending
                /\ Cardinality(pending \ pending') <= 1)
          /\ \A s \in Stores :
               (selectDiscoveredSources(storeState[s])' # selectDiscoveredSources(storeState[s]))
               => \E source \in pending \ pending' :
                      /\ s = storeReference
                      /\ storeState'[s].logging =
                              <<addDiscoveredSource(storeState[s].logging[1], source)>>]_vars
    /\ [](\A source \in pending : includes(discoveredSourcesCache, source))

\* two calls from A were made with a store attached, and the one notification
\* they scheduled has run: the store lists A once and nothing is pending
C27_Witness ==
    /\ Len(callLog) = 2 /\ callLog[1].label = SrcA /\ callLog[2].label = SrcA
    /\ Registers(callLog[1]) /\ Registers(callLog[2])
    /\ last.op = "notify" /\ ~last.rejected
    /\ AttachedLogging # <<>> /\ AttachedLogging[1].discoveredSources = <<SrcA>>
    /\ pending = {}

\* the default threshold of the environment: info in production, debug otherwise
DefaultThreshold == IF env.PROD THEN "info" ELSE "debug"

\* C28: a logger whose minimum level is a string that is no level applies
\* the default threshold of the environment: the call just made on it, at a
\* level below that default, was not recorded.
C28_UnrecognizedLevelFallsBack ==
    (/\ last.op = "log"
     /\ options[last.logger].minLevel \notin LogLevel
     /\ Ordinal(last.level) < Ordinal(DefaultThreshold))
    => (~last.recorded /\ last.channel = None)

\* the messages that begin with a bracketed token of one character, and the token
BracketedMessages ==
    {msg \in Messages : Len(msg) >= 3 /\ msg[1] = "[" /\ msg[2] # "]" /\ msg[3] = "]"}
TokenOf(msg) == <<msg[2]>>

\* text ends with msg
EndsWith(text, msg) ==
    Len(text) >= Len(msg) /\ SubSeq(text, Len(text) - Len(msg) + 1, Len(text)) = msg

\* C29: a message that begins with a bracketed token resolves to that token,
\* and what is recorded and what the sink is given is the message as it was
\* passed, on the logger with includeSource and on the one without.  Both for
\* every such call that could be made now, and for the call just made from
\* 'A' or 'a' (labels that only a bracketed message carries).
C29_BracketedMessageKeptAsIs ==
    /\ \A l \in Loggers, level \in LogLevel, msg \in BracketedMessages, hasConsole \in BOOLEAN :
           LET r == log(l, level, msg, StackFile, <<>>, {}, hasConsole) IN
           /\ extractSourceFromMessage(msg) = TokenOf(msg)
           /\ formatMessage(l, msg, TokenOf(msg)) = msg
           /\ r.label = TokenOf(msg)
           /\ r.exit = "sink" =>
                  /\ r.entries[Len(r.entries)].message = msg
                  /\ r.entries[Len(r.entries)].source = TokenOf(msg)
                  /\ r.write # <<>> => EndsWith(r.write[1].text, msg)
    /\ (last.op = "log" /\ last.recorded /\ last.label \in {SrcA, SrcLowerA}) =>
           LET entry == logEntries[last.logger][Len(logEntries[last.logger])]
               msg == <<"[">> \o last.label \o <<"]", " ", "x">>
           IN /\ msg \in BracketedMessages
              /\ entry.message = msg /\ entry.source = last.label
              /\ last.channel # None => EndsWith(console[Len(console)].text, msg)

\* '[a] x' was just recorded and written on the default logger, whose
\* includeSource is true: the entry holds the message as passed, and the
\* console line is that message behind the timestamp
C29_Witness ==
    /\ last.op = "log" /\ last.logger = 1 /\ last.label = SrcLowerA
    /\ last.recorded /\ last.channel # None
    /\ options[1].includeSource /\ ~options[2].includeSource
    /\ logEntries[1][Len(logEntries[1])].message = MsgLowerA
    /\ console[Len(console)].text # MsgLowerA

\* the output channel of a level
ExpectedChannel(level) ==
    CASE level = "trace" -> "debug" [] level = "debug" -> "debug"
      [] level = "info" -> "info" [] level = "warn" -> "warn"
      [] level = "error" -> "error" [] level = "fatal" -> "error"

\* C30: a log call whose entry is recorded, made with a console present and
\* a formatter that returns, appends exactly one write to the console, on the
\* channel of its level; every other step leaves the console as it was.
C30_OneWriteOnTheChannelOfTheLevel ==
    [][IF /\ IsLogCall /\ last'.recorded /\ last'.hasConsole
          /\ options[last'.logger].formatter # "throws"
       THEN /\ Len(console') = Len(console) + 1
            /\ SubSeq(console', 1, Len(console)) = console
            /\ console'[Len(console')].channel = ExpectedChannel(last'.level)
            /\ last'.channel = ExpectedChannel(last'.level)
       ELSE console' = console]_vars

\* a fatal call was just recorded and written, once, on the error channel
C30_Witness ==
    /\ last.op = "log" /\ last.level = "fatal" /\ last.recorded
    /\ Len(console) = 1 /\ console[1].channel = "error"

(* ------------------------------------------------------------------ *)
(* The store on its own                                                *)
(* ------------------------------------------------------------------ *)
\* the logging slice of the panel's store now, after the action last names
After == storeState[PanelStore].logging[1]

\* the action of the given type was just dispatched to the panel's store
Dispatched(type) == last.op = "dispatch" /\ last.action.type = type

\* the elements of a list
Elems(list) == {list[i] : i \in 1..Len(list)}

\* list is in strictly ascending order of UTF-16 code units
Ascending(list) == \A i, j \in 1..Len(list) : i < j => StrLess(list[i], list[j])

\* C31 as stated: a source that is not yet in discoveredSources is added at
\* the end of it, so that the list is the sources in the order of their
\* addition
C31_AddedInOrderOfAddition ==
    (Dispatched("addDiscoveredSource")
     /\ ~includes(last.before.discoveredSources, last.action.payload))
    => After.discoveredSources = Append(last.before.discoveredSources, last.action.payload)

\* C31: addDiscoveredSource of a source not yet listed gives the list of the
\* sources added so far in ascending order (of code units), whatever the
\* order of their addition; it is the order of addition when each source
\* added is greater than those before it.  Nothing but discoveredSources
\* changes.
C31_AddedKeptAscending ==
    (Dispatched("addDiscoveredSource")
     /\ ~includes(last.before.discoveredSources, last.action.payload))
    => /\ Elems(After.discoveredSources) =
              Elems(last.before.discoveredSources) \cup {last.action.payload}
       /\ Len(After.discoveredSources) = Len(last.before.discoveredSources) + 1
       /\ Ascending(After.discoveredSources)
       /\ (\A i \in 1..Len(last.before.discoveredSources) :
               StrLess(last.before.discoveredSources[i], last.action.payload))
          => After.discoveredSources =
                 Append(last.before.discoveredSources, last.action.payload)
       /\ After = [last.before EXCEPT !.discoveredSources = After.discoveredSources]

\* A was just added to a store that listed B and 'a': the list is A, B, a
C31_Witness ==
    /\ Dispatched("addDiscoveredSource") /\ last.action.payload = SrcA
    /\ last.before.discoveredSources = <<SrcB, SrcLowerA>>
    /\ After.discoveredSources = <<SrcA, SrcB, SrcLowerA>>

\* list without the entries equal to x
Without(list, x) == SelectSeq(list, LAMBDA y : y # x)

\* C32: the single-source writes touch the named source alone.  After
\* toggleSourceLogging(S), S is in disabledSources exactly when it was not
\* before, and a second toggle brings its membership back; after
\* setSourceLogging(S, flag), S is in it exactly when flag is true, and the same
\* write again changes nothing.  In both cases the other entries of
\* disabledSources are the same, in the same order, and nothing else of the
\* slice changes.
C32_SingleSourceWritesTouchOnlyThatSource ==
    /\ Dispatched("toggleSourceLogging") =>
           LET S == last.action.payload
               twice == toggleSourceLogging(toggleSourceLogging(last.before, S), S)
           IN /\ includes(After.disabledSources, S) <=> ~includes(last.before.disabledSources, S)
              /\ Without(After.disabledSources, S) = Without(last.before.disabledSources, S)
              /\ After = [last.before EXCEPT !.disabledSources = After.disabledSources]
              /\ toggleSourceLogging(After, S).disabledSources = twice.disabledSources
              /\ includes(twice.disabledSources, S) <=> includes(last.before.disabledSources, S)
              /\ Without(twice.disabledSources, S) = Without(last.before.disabledSources, S)
    /\ Dispatched("setSourceLogging") =>
           LET S == last.action.payload.source
               flag == last.action.payload.disabled
           IN /\ includes(After.disabledSources, S) <=> flag
              /\ Without(After.disabledSources, S) = Without(last.before.disabledSources, S)
              /\ After = [last.before EXCEPT !.disabledSources = After.disabledSources]
              /\ setSourceLogging(After, S, flag) = After

\* A was just toggled in a store that had A and then B disabled and A
\* discovered: B alone is disabled now
C32_Witness ==
    /\ Dispatched("toggleSourceLogging") /\ last.action.payload = SrcA
    /\ last.before.disabledSources = <<SrcA, SrcB>>
    /\ last.before.discoveredSources = <<SrcA>>
    /\ After.disabledSources = <<SrcB>>

\* C33: after the bulk-set action setDisabledSources(list), disabledSources is
\* the given list, whatever it held before; after setDisabledSources([]) no
\* source is disabled.
C33_BulkSetReplacesDisabledSources ==
    Dispatched("setDisabledSources") =>
        /\ After.disabledSources = last.action.payload
        /\ last.action.payload = <<>> =>
               \A source \in StoreSources : ~includes(After.disabledSources, source)

\* the global flag of the panel's store is still what the initial state set
FlagAsInitially == After.isGloballyDisabled = initialState.isGloballyDisabled

\* C34: logging starts disabled.  While the attached store's flag is what its
\* initial state set, the log call just made was neither recorded nor written.
\* Of the writes, setGlobalLogging(false), toggleGlobalLogging and
\* resetLoggingSettings turn the flag to enabled and every other one leaves it;
\* and no log call, notification, setLoggerStore or clearHistory changes it.
C34_DisabledUntilEnabledByAWrite ==
    /\ [](/\ initialState.isGloballyDisabled
          /\ (last.op = "log" /\ storeReference = PanelStore /\ FlagAsInitially)
             => (~last.recorded /\ last.channel = None)
          /\ FlagAsInitially =>
                /\ ~setGlobalLogging(After, FALSE).isGloballyDisabled
                /\ ~toggleGlobalLogging(After).isGloballyDisabled
                /\ ~resetLoggingSettings(After).isGloballyDisabled
                /\ setGlobalLogging(After, TRUE).isGloballyDisabled
                /\ enableAllSources(After).isGloballyDisabled
                /\ disableAllSources(After).isGloballyDisabled
                /\ setLogLevel(After, "debug").isGloballyDisabled
                /\ \A source \in Sources :
                       /\ toggleSourceLogging(After, source).isGloballyDisabled
                       /\ setSourceLogging(After, source, TRUE).isGloballyDisabled
                       /\ setSourceLogging(After, source, FALSE).isGloballyDisabled
                       /\ addDiscoveredSource(After, source).isGloballyDisabled)
    /\ [][After.isGloballyDisabled' # After.isGloballyDisabled =>
             /\ ~IsLogCall /\ last'.op # "notify"
             /\ UNCHANGED <<storeReference, logEntries, console, pending,
                            discoveredSourcesCache>>]_vars

\* with the panel's store attached, a warn call from A was stopped by the
\* flag; after a write that enabled logging the same call was recorded
C34_Witness ==
    /\ storeReference = PanelStore /\ ~After.isGloballyDisabled
    /\ Len(callLog) = 2 /\ last.op = "log" /\ last.recorded
    /\ callLog[1].logger = 1 /\ callLog[1].label = SrcA /\ callLog[1].level = "warn"
    /\ callLog[1].exit = "global"
    /\ callLog[2].logger = 1 /\ callLog[2].label = SrcA /\ callLog[2].level = "warn"
    /\ callLog[2].exit = "sink"
    /\ discoveredSourcesCache = <<SrcA>>

\* the log call of this step reached the sink: it was approved
Approved == callLog'[Len(callLog')].exit = "sink"

\* C35: the history records exactly the approved entries.  A log call that
\* is suppressed leaves every history and the console as they were.  An
\* approved call appends one entry to the history of its logger and to no
\* other, made at the time of the call with the level and the source of the
\* call; what the sink writes for it carries the entry's extra arguments and
\* its formatted message (behind the timestamp), on the channel of its level.
C35_HistoryRecordsExactlyTheApproved ==
    [][IsLogCall =>
          LET l == last'.logger
              entry == logEntries'[l][Len(logEntries'[l])]
          IN IF Approved
             THEN /\ logEntries'[l] = Append(logEntries[l], entry)
                  /\ \A k \in Loggers \ {l} : logEntries'[k] = logEntries[k]
                  /\ entry.level = last'.level
                  /\ entry.source = last'.label
                  /\ entry.timestamp = now'
                  /\ IF last'.hasConsole /\ ~last'.threw
                     THEN /\ Len(console') = Len(console) + 1
                          /\ console'[Len(console')].args = entry.args
                          /\ EndsWith(console'[Len(console')].text, entry.message)
                          /\ console'[Len(console')].channel = ExpectedChannel(entry.level)
                     ELSE console' = console
             ELSE /\ logEntries' = logEntries
                  /\ console' = console
                  /\ ~last'.recorded /\ last'.channel = None]_vars

\* an info call from file B with an extra argument was just recorded on the
\* default logger and written: the entry and the write carry the argument
C35_Witness ==
    /\ last.op = "log" /\ last.logger = 1 /\ last.level = "info" /\ last.label = SrcB
    /\ Len(logEntries[1]) = 1 /\ logEntries[1][1].args = <<"obj">>
    /\ logEntries[1][1].message = <<"[", "B", "]", " ", "x">>
    /\ Len(console) = 1 /\ console[1].args = <<"obj">> /\ console[1].channel = "info"

\* C36: the statistics of the panel's store are consistent in every state the
\* exported actions reach: the enabled and the disabled count add up to the
\* total, the enabled count lies between 0 and the total, and it is the
\* number of discovered sources that are not disabled (0 when logging is
\* globally disabled).
C36_StatsConsistent ==
    LET stats == selectLoggingStats(storeState[PanelStore])
        enabledDiscovered ==
            {source \in Elems(After.discoveredSources) :
                 ~includes(After.disabledSources, source)}
    IN /\ stats.enabledSources + stats.disabledSources = stats.totalSources
       /\ 0 <= stats.enabledSources /\ stats.enabledSources <= stats.totalSources
       /\ stats.enabledSources =
              IF stats.isGloballyDisabled THEN 0 ELSE Cardinality(enabledDiscovered)

\* C37: the store's view and the logger agree.  With a store attached and
\* the environment not disabling all logging, selectIsSourceLoggingDisabled(S)
\* on the store's state is true exactly when isSourceDisabled(S) is, for every
\* source S; and the log call just made from a source, at a level that passes
\* the threshold and with reads that succeeded, was suppressed exactly when
\* the selector is true for its source.
C37_SelectorAgreesWithLogger ==
    (storeReference # None /\ ~EnvDisableAll) =>
        /\ \A S \in Sources \cup {SrcLowerA} :
               selectIsSourceLoggingDisabled(storeState[storeReference], S)
                   <=> isSourceDisabled(S, FALSE, FALSE)
        /\ (/\ last.op = "log" /\ last.failedRead = 0 /\ last.label # NoSource
            /\ options[last.logger].minLevel \in LogLevel
            /\ Ordinal(last.level) >= Ordinal(options[last.logger].minLevel))
           => (~last.recorded
                  <=> selectIsSourceLoggingDisabled(storeState[storeReference], last.label))

\* with the preset store attached, whose flag allows logging, an error call
\* from file B was just stopped: the selector is true for B and false for A
C37_Witness ==
    /\ storeReference = "s2" /\ ~selectIsGlobalLoggingDisabled(storeState["s2"])
    /\ last.op = "log" /\ last.level = "error" /\ last.label = SrcB /\ ~last.recorded
    /\ selectIsSourceLoggingDisabled(storeState["s2"], SrcB)
    /\ ~selectIsSourceLoggingDisabled(storeState["s2"], SrcA)

\* C38: in every state the exported actions reach from the initial state,
\* discoveredSources holds no source twice and is in ascending order, the
\* action just dispatched removed nothing from it, and disabledSources holds
\* no source twice.
C38_StoreListsWellFormed ==
    /\ NoDuplicates(After.discoveredSources)
    /\ Ascending(After.discoveredSources)
    /\ NoDuplicates(After.disabledSources)
    /\ last.op = "dispatch" =>
           Elems(last.before.discoveredSources) \subseteq Elems(After.discoveredSources)

\* reset was just dispatched to a store that listed three discovered sources
\* and had two of them disabled: the three are still listed
C38_Witness ==
    /\ Dispatched("resetLoggingSettings")
    /\ last.before.discoveredSources = <<SrcA, SrcB, SrcLowerA>>
    /\ last.before.disabledSources = <<SrcLowerA, SrcA>>
    /\ After.discoveredSources = <<SrcA, SrcB, SrcLowerA>>
    /\ After.disabledSources = <<>>

\* C39: disableAllSources makes disabledSources the store's discoveredSources
\* as they are at that moment and changes nothing else: a source that was
\* disabled but is not discovered is no longer disabled.  A source added to
\* discoveredSources afterwards is not added to disabledSources.
C39_DisableAllIsExactlyDiscovered ==
    /\ Dispatched("disableAllSources") =>
           /\ After.disabledSources = last.before.discoveredSources
           /\ After = [last.before EXCEPT !.disabledSources = After.disabledSources]
           /\ \A source \in StoreSources :
                  (/\ includes(last.before.disabledSources, source)
                   /\ ~includes(last.before.discoveredSources, source))
                  => ~includes(After.disabledSources, source)
    /\ Dispatched("addDiscoveredSource") =>
           After.disabledSources = last.before.disabledSources

\* disable-all was just dispatched to a store that had B disabled and only A
\* discovered: A is disabled now and B is not
C39_Witness ==
    /\ Dispatched("disableAllSources")
    /\ last.before.disabledSources = <<SrcB>>
    /\ last.before.discoveredSources = <<SrcA>>
    /\ After.disabledSources = <<SrcA>>

\* C40: a deferred notification goes to the store that is attached when the
\* task runs.  The step of a deferred task changes no store but the one
\* attached at that step, to which it adds the task's source (nothing, if
\* that store has no dispatch or its dispatch throws); and setLoggerStore
\* neither runs nor drops the pending tasks, and writes to no store.
C40_NotificationGoesToAttachedStore ==
    [][/\ last'.op = "notify" =>
              \E source \in pending \ pending' :
                  \A s \in Stores :
                      storeState'[s] =
                          IF s = storeReference /\ storeState[s].dispatch /\ ~last'.rejected
                          THEN dispatch(storeState[s],
                                        [type |-> "addDiscoveredSource", payload |-> source])
                          ELSE storeState[s]
       /\ storeReference' # storeReference =>
              (pending' = pending /\ storeState' = storeState)]_vars

\* A was discovered by a call that the panel's store stopped by its list, the
\* preset store was attached before the notification ran, and the
\* notification has run: the preset store lists A and the panel's store does not
C40_Witness ==
    /\ Len(callLog) = 1 /\ callLog[1].label = SrcA /\ callLog[1].exit = "source"
    /\ last.op = "notify" /\ ~last.rejected /\ pending = {}
    /\ storeReference = "s2"
    /\ selectDiscoveredSources(storeState["s2"]) = <<SrcA>>
    /\ selectDiscoveredSources(storeState[PanelStore]) = <<>>

====
